---- MODULE Spec2Model ----
(***************************************************************************)
(* Auto-Scholar: the checkpointed agent graph of one research session.     *)
(*                                                                         *)
(* The session state is the record `values` (AgentState); every agent is   *)
(* an operator from the state and the outcome of its external calls (LM,   *)
(* search adapters) to a partial update, merged into the state under the   *)
(* per-field merge policy.  The HTTP handlers of backend/main.py (start,   *)
(* stream, approve, continue) are the actions a caller can take.           *)
(*                                                                         *)
(* backend/workflow.py (graph topology, routers, interrupt) and the        *)
(* LangGraph runtime are not part of the sources at hand; their model      *)
(* follows the specification text and the router tests.                    *)
(*                                                                         *)
(* Calls on one session are serialised: approve and continue are taken     *)
(* while no graph run of the session is in progress.                       *)
(*                                                                         *)
(* No agent and no router reads the append-only diagnostic channels (logs, *)
(* agent_handoffs).  Spec follows the session without them; SpecDiag       *)
(* records them in full.                                                   *)
(***************************************************************************)
EXTENDS Integers, Sequences, FiniteSets, TLC

VARIABLES
    values,       \* the latest checkpoint's channel values (<<>> : no session)
    next_nodes,   \* the latest checkpoint's pending nodes (snapshot.next)
    run,          \* "idle", "invoke" (start's ainvoke) or "stream" (astream)
    resuming,     \* the run was entered with a null input and has run no node yet
    last,         \* the last operation taken and, for a handler, its response
    turn_steps,   \* node executions since the last start or continue call
    writer_runs,  \* writer executions since the last start or continue call
    continues,    \* accepted continue calls so far
    node_runs,    \* node executions of a session that records diagnostics
    diag,         \* the session records the diagnostic channels (logs, handoffs)
    event_queue,  \* the fields of one StreamingEventQueue
    sleep_ms,     \* what is left of the periodic flush task's sleep
    closing,      \* a close() call is suspended, awaiting the cancelled task
    pushed,       \* the tokens push() has accepted, in order
    yielded,      \* what consume() has yielded: chunks and heartbeats
    consumer,     \* "running", or "done" once consume() saw the terminator
    queue_op,     \* the last push() or close() call and what became of it
    extraction,   \* the state of each paper's extraction task
    semaphore,    \* the permits left in extractor_agent's semaphore
    lm_calls,     \* the LM calls in flight
    writer_task,  \* how far writer_agent's LM calls have come
    section_results, \* the results the section tasks have delivered, by index
    writer_draft, \* the draft writer_agent built from the gathered results
    routing,      \* the arguments of a select_model call
    selected_model, \* what select_model returned
    chain_call,   \* the arguments of a get_fallback_chain call
    fallback_chain, \* what get_fallback_chain returned
    critic_state, \* the state and the verification outcome of a critic_agent call
    critic_update, \* what that critic_agent call returned
    extractor_state, \* the state and the call outcomes of an extractor_agent call
    extractor_update, \* what that extractor_agent call returned
    paused_candidates, \* candidate_papers in the checkpoint of a paused session
    approve_calls, \* the approve_papers calls on that session, each at its step
    producer, \* how far the producer task of a stream has come
    llm_request, \* one structured_completion request: its attempts so far
    continuation, \* a finished session and the continue calls made on it in a row
    field_feed, \* a JSON text, how much of it was fed to a field extractor, and what came out
    prioritized, \* a paper list and a plan, and the list after one and after two prioritizations
    claim_extraction \* one extract_all_claims call: the batches left and the LM calls issued

session_vars == <<values, next_nodes, run, resuming, last, turn_steps,
                  writer_runs, continues, node_runs, diag>>

queue_vars == <<event_queue, sleep_ms, closing, pushed, yielded, consumer,
                queue_op>>

llm_vars == <<extraction, semaphore, lm_calls, writer_task, section_results,
              writer_draft>>

router_vars == <<routing, selected_model, chain_call, fallback_chain>>

\* the calls of single functions that are checked on their own
critic_vars == <<critic_state, critic_update>>

extractor_vars == <<extractor_state, extractor_update>>

approve_vars == <<paused_candidates, approve_calls>>

stream_vars == <<producer>>

retry_vars == <<llm_request>>

continue_vars == <<continuation>>

field_vars == <<field_feed>>

prioritize_vars == <<prioritized>>

claims_vars == <<claim_extraction>>

call_vars ==
    <<critic_vars, extractor_vars, approve_vars, stream_vars, retry_vars, continue_vars, field_vars, prioritize_vars, claims_vars>>

vars == <<session_vars, queue_vars, llm_vars, router_vars, call_vars>>

\* what the call of one function leaves alone
OutsideCritic ==
    <<session_vars, queue_vars, llm_vars, router_vars,
      extractor_vars, approve_vars, stream_vars, retry_vars,
      continue_vars, field_vars, prioritize_vars, claims_vars>>
OutsideExtractor ==
    <<session_vars, queue_vars, llm_vars, router_vars,
      critic_vars, approve_vars, stream_vars, retry_vars,
      continue_vars, field_vars, prioritize_vars, claims_vars>>
OutsideApprove ==
    <<session_vars, queue_vars, llm_vars, router_vars,
      critic_vars, extractor_vars, stream_vars, retry_vars,
      continue_vars, field_vars, prioritize_vars, claims_vars>>
OutsideStream ==
    <<session_vars, llm_vars, router_vars, critic_vars,
      extractor_vars, approve_vars, retry_vars, continue_vars,
      field_vars, prioritize_vars, claims_vars>>
OutsideRetry ==
    <<session_vars, queue_vars, llm_vars, router_vars,
      critic_vars, extractor_vars, approve_vars, stream_vars,
      continue_vars, field_vars, prioritize_vars, claims_vars>>
OutsideContinue ==
    <<session_vars, queue_vars, llm_vars, router_vars,
      critic_vars, extractor_vars, approve_vars, stream_vars,
      retry_vars, field_vars, prioritize_vars, claims_vars>>
OutsideFieldFeed ==
    <<session_vars, queue_vars, llm_vars, router_vars,
      critic_vars, extractor_vars, approve_vars, stream_vars,
      retry_vars, continue_vars, prioritize_vars, claims_vars>>
OutsidePrioritize ==
    <<session_vars, queue_vars, llm_vars, router_vars,
      critic_vars, extractor_vars, approve_vars, stream_vars,
      retry_vars, continue_vars, field_vars, claims_vars>>
OutsideClaimExtraction ==
    <<session_vars, queue_vars, llm_vars, router_vars,
      critic_vars, extractor_vars, approve_vars, stream_vars,
      retry_vars, continue_vars, field_vars, prioritize_vars>>

-----------------------------------------------------------------------------
(* Bounds of the model                                                     *)

\* accepted continue calls explored per session; node executions explored
\* of a session that records the diagnostic channels
MaxContinues == 1
MaxNodeRuns == 14

\* continue calls made in a row on one finished session
MaxRepeatedContinues == 2

\* key/value pairs of a JSON text fed to a field extractor
MaxPairs == 2

\* papers in a list that is prioritized
MaxPapers == 3

\* sections of a draft whose claims are extracted
MaxSections == 4

\* approve calls in progress on one paused session
MaxApproveCalls == 2

\* claim verifications a critic call may be given the labels of
MaxVerifications == 5

\* tokens a producer pushes before the queue is closed; heartbeats a consumer
\* is sent
MaxPushes == 3
MaxHeartbeats == 1

\* models of a registry handed to select_model
MaxModels == 3

-----------------------------------------------------------------------------
(* Program constants                                                       *)

MAX_QA_RETRIES == 3
MAX_KEYWORDS == 5
CONTEXT_MAX_PAPERS == 200
COT_QUERY_MIN_LENGTH == 10
CLAIM_VERIFICATION_ENABLED == TRUE

\* None of an optional string field / of an optional object field
Null == "null"
None == [none |-> TRUE]
START == "__start__"
END == "__end__"

-----------------------------------------------------------------------------
(* Generic helpers                                                         *)

Range(s) == {s[i] : i \in DOMAIN s}

Take(s, n) == SubSeq(s, 1, IF Len(s) < n THEN Len(s) ELSE n)

IsPrefix(s, t) == Len(s) <= Len(t) /\ SubSeq(t, 1, Len(s)) = s

\* list(dict.fromkeys(s)): first occurrences, in order
RECURSIVE Dedup(_)
Dedup(s) ==
    IF s = <<>> THEN <<>>
    ELSE LET front == Dedup(SubSeq(s, 1, Len(s) - 1))
             x == s[Len(s)]
         IN IF x \in Range(front) THEN front ELSE Append(front, x)

\* sorted(S) for a finite set of integers
RECURSIVE SortedSeq(_)
SortedSeq(S) ==
    IF S = {} THEN <<>>
    ELSE LET m == CHOOSE x \in S : \A y \in S : x <= y
         IN <<m>> \o SortedSeq(S \ {m})

RECURSIVE Concat(_)
Concat(ss) == IF ss = <<>> THEN <<>> ELSE Head(ss) \o Concat(Tail(ss))

-----------------------------------------------------------------------------
(* State store: per-field merge policy                                     *)

\* Annotated[list, operator.add] channels of AgentState
\* a store whose logs channel replaces instead of appending
AppendFieldsWithoutLogs == {"messages", "agent_handoffs"}

AppendFields == {"logs", "messages", "agent_handoffs"}

\* the scheduler's merge of a node's partial update into the state
Merge(state, upd) ==
    [k \in DOMAIN state |->
        IF k \in DOMAIN upd
        THEN (IF k \in AppendFields THEN state[k] \o upd[k] ELSE upd[k])
        ELSE state[k]]

\* the append-only channels that are written and never read by the graph
DiagnosticChannels == {"logs", "agent_handoffs"}

\* the channels of a session: all of them, or all but the diagnostic ones
Channels(state, with_diagnostics) ==
    IF with_diagnostics THEN state
    ELSE [k \in DOMAIN state \ DiagnosticChannels |-> state[k]]

\* snapshot.values of a thread that has no checkpoint
NoSession == None

-----------------------------------------------------------------------------
(* Data drawn by the external collaborators                                *)

\* PaperMetadata: title_words are the (lowercased) keywords occurring in the
\* title; core_contribution and pdf_url are Null or a value
Paper(id, words, contribution) ==
    [paper_id |-> id, title_words |-> words, is_approved |-> FALSE,
     core_contribution |-> contribution, pdf_url |-> Null]

\* what the scholarly search adapters may return: deduplicated by paper_id,
\* unapproved; an adapter may or may not fill core_contribution
CandidateChoices ==
    { <<>>,
      <<Paper("P1", {"attention"}, "c1"), Paper("P2", {"bert"}, Null)>> }

\* ids a caller may send to the approval call
PaperIdChoices == { {"P2"}, {"P1", "P2"}, {"P9"} }

\* len(user_query.strip()) of the queries a caller may send
StripLen(q) == IF q = "attention" THEN 9 ELSE 32

\* StartRequest: query and optional model_id
StartRequests ==
    { [query |-> "attention", model_id |-> Null],
      [query |-> "transformer attention mechanisms", model_id |-> "openai:gpt-4o"] }

\* ContinueRequest: message and optional model_id
ContinueRequests ==
    { [message |-> "add BERT variants", model_id |-> Null],
      [message |-> "add BERT variants", model_id |-> "deepseek:deepseek-chat"] }

\* ResearchPlan the LM may return to the planner
PlanChoices ==
    { [reasoning |-> "r",
       sub_questions |->
          << [keywords |-> <<"attention", "transformer">>, priority |-> 2],
             [keywords |-> <<"bert", "attention">>, priority |-> 1] >>] }

\* KeywordPlan.keywords the LM may return to the planner
KeywordChoices == { <<>>, <<"attention">> }

\* draft content: a sequence of tokens; {cite:N} is [k |-> "cite", n |-> N],
\* the rendered [N] is [k |-> "ref", n |-> N]
Text == [k |-> "text", n |-> 0]
Cite(i) == [k |-> "cite", n |-> i]
Ref(i) == [k |-> "ref", n |-> i]
Failed == [k |-> "failed", n |-> 0]

\* section contents the LM may write
ContentChoices ==
    { <<Text, Cite(1), Cite(2)>>, <<Text, Cite(1)>>, <<Text, Cite(9)>> }

Section(h, c) == [heading |-> h, content |-> c, cited_paper_ids |-> <<>>]

\* DraftOutput the LM may return to a whole-draft call
DraftChoices ==
    { [title |-> "Review", sections |-> <<Section("Introduction", c)>>] :
        c \in ContentChoices }

\* DraftOutline the LM may return
OutlineChoices ==
    { [title |-> "Review", section_titles |-> <<"Introduction", "Methods">>] }

\* the parsed JSON object of an LM reply: its top-level keys and its payload
Reply(keys, value) == [keys |-> keys, value |-> value]

\* structured_completion raised (ValueError)
Raised == [ok |-> FALSE, content |-> <<>>]

SCHEMA_KEYS == {"properties", "type", "required", "$schema", "$defs"}

structured_completion_accepting_schema(reply, response_model) ==
    [ok |-> TRUE, content |-> reply.value]

\* structured_completion after JSON parsing: an object holding "properties"
\* and no content key is rejected, schema keys mixed with content are
\* stripped, and the rest is validated against the response model's fields
structured_completion(reply, response_model) ==
    LET actual_keys == reply.keys \ SCHEMA_KEYS
        parsed_keys == IF "properties" \in reply.keys THEN actual_keys ELSE reply.keys
    IN IF "properties" \in reply.keys /\ actual_keys = {}
       THEN Raised
       ELSE IF response_model \subseteq parsed_keys
            THEN [ok |-> TRUE, content |-> reply.value]
            ELSE Raised

\* required fields of the response models of the writer's calls
ReviewSectionFields == {"heading", "content"}
DraftOutputFields == {"title", "sections"}
DraftOutlineFields == {"title", "section_titles"}

\* replies made only of schema-definition keys, with and without "properties"
SchemaReply == Reply({"properties", "type", "required"}, <<>>)
SchemaTypeReply == Reply({"type", "required"}, <<>>)

\* replies the LM may give to one _generate_section call
SectionReplies ==
    { Reply(ReviewSectionFields, c) : c \in {<<Text, Cite(1), Cite(2)>>} }
    \cup { SchemaReply, SchemaTypeReply }

\* outcome of one _generate_section task: a ReviewSection or an exception
SectionResults ==
    { structured_completion(reply, ReviewSectionFields) : reply \in SectionReplies }

\* ClaimVerificationSummary of verify_draft_citations, or its exception
Summary(t, e) == [total_verifications |-> t, entails_count |-> e, failed |-> t - e]
VerificationChoices ==
    { [raised |-> TRUE,  summary |-> Summary(0, 0)],
      [raised |-> FALSE, summary |-> Summary(5, 4)],
      [raised |-> FALSE, summary |-> Summary(5, 3)] }

\* Reflection the LM may return
Reflection(entries, should_retry, retry_target) ==
    [entries |-> entries, should_retry |-> should_retry, retry_target |-> retry_target]
ReflectionEntry == [error_category |-> "missing_citation", fixable_by_writer |-> TRUE]
ReflectionChoices ==
    { Reflection(<<ReflectionEntry>>, FALSE, "writer_agent"),
      Reflection(<<ReflectionEntry>>, TRUE, "writer_agent"),
      Reflection(<<ReflectionEntry>>, TRUE, "retriever_agent"),
      Reflection(<<>>, TRUE, "unknown_agent") }

\* outcomes of the extractor's calls: the ids whose extraction raised, and the
\* full-text enrichment ("error": it raised, "found": pdf urls filled in)
ExtractionChoices ==
    { [failed |-> {}, enrich |-> "found"],
      [failed |-> {"P1"}, enrich |-> "error"] }

-----------------------------------------------------------------------------
(* Agents (backend/nodes.py): state and external outcome -> partial update *)

\* a log line: its text and the number it embeds (0 when none is modelled)
Log(msg, n) == [msg |-> msg, n |-> n]

planner_agent(state, lm) ==
    LET use_cot == StripLen(state.user_query) >= COT_QUERY_MIN_LENGTH
                   /\ ~state.is_continuation
        plan == lm.plan
        all_keywords == Concat([i \in DOMAIN plan.sub_questions |->
                                   plan.sub_questions[i].keywords])
    IN IF use_cot
       THEN [search_keywords |-> Take(Dedup(all_keywords), MAX_KEYWORDS),
             research_plan |-> plan,
             logs |-> <<Log("Research plan: sub-questions identified", 0),
                        Log("Reasoning", 0),
                        Log("Generated search keywords", 0)>>,
             current_agent |-> "planner",
             agent_handoffs |-> <<"->planner">>]
       ELSE [search_keywords |-> Take(lm.keywords, MAX_KEYWORDS),
             research_plan |-> None,
             logs |-> <<Log("Generated search keywords", 0)>>,
             current_agent |-> "planner",
             agent_handoffs |-> <<"->planner">>]

\* an extractor that never looks at the plan
HasSubQuestionsNever(research_plan) == FALSE

HasSubQuestions(research_plan) ==
    research_plan # None /\ research_plan.sub_questions # <<>>

retriever_agent(state, lm) ==
    IF state.search_keywords = <<>>
    THEN [candidate_papers |-> <<>>,
          logs |-> <<Log("No search keywords available, skipping search", 0)>>,
          current_agent |-> "retriever",
          agent_handoffs |-> <<"planner->retriever">>]
    ELSE [candidate_papers |-> lm.papers,
          logs |-> <<IF HasSubQuestions(state.research_plan)
                     THEN Log("Found unique papers from sub-questions", 0)
                     ELSE Log("Found unique papers across queries", 0)>>,
          current_agent |-> "retriever",
          agent_handoffs |-> <<"planner->retriever">>]

\* score(p): sum(1 for kw in lower_keywords if kw in title_lower)
Score(p, keywords) ==
    Cardinality({i \in DOMAIN keywords : keywords[i] \in p.title_words})

\* a match that takes the first paper whatever its score
_find_first_paper(papers, keywords) ==
    IF papers = <<>> \/ keywords = <<>> THEN 0 ELSE 1

\* index in papers of the paper _find_best_keyword_match returns, 0 for None
_find_best_keyword_match(papers, keywords) ==
    IF papers = <<>> \/ keywords = <<>> THEN 0
    ELSE LET best == CHOOSE i \in DOMAIN papers :
                        /\ \A j \in DOMAIN papers :
                              Score(papers[j], keywords) <= Score(papers[i], keywords)
                        /\ \A j \in 1..(i - 1) :
                              Score(papers[j], keywords) < Score(papers[i], keywords)
         IN IF Score(papers[best], keywords) > 0 THEN best ELSE 1

\* sorted(sub_questions, key=priority): stable
RECURSIVE SortByPriority(_)
SortByPriority(sqs) ==
    IF sqs = <<>> THEN <<>>
    ELSE LET i == CHOOSE i \in DOMAIN sqs :
                    /\ \A j \in DOMAIN sqs : sqs[i].priority <= sqs[j].priority
                    /\ \A j \in 1..(i - 1) : sqs[j].priority > sqs[i].priority
         IN <<sqs[i]>> \o SortByPriority(SubSeq(sqs, 1, i - 1)
                                          \o SubSeq(sqs, i + 1, Len(sqs)))

RECURSIVE Prioritize(_, _, _)
Prioritize(reserved, remaining, sqs) ==
    IF sqs = <<>> THEN reserved \o remaining
    ELSE LET best == _find_best_keyword_match(remaining, Head(sqs).keywords)
         IN IF best = 0
            THEN Prioritize(reserved, remaining, Tail(sqs))
            ELSE Prioritize(Append(reserved, remaining[best]),
                            SubSeq(remaining, 1, best - 1)
                              \o SubSeq(remaining, best + 1, Len(remaining)),
                            Tail(sqs))

_prioritize_by_sub_questions(papers, research_plan) ==
    Prioritize(<<>>, papers, SortByPriority(research_plan.sub_questions))

IsApprovedOrPending(p) == TRUE

IsApproved(p) == p.is_approved
HasContribution(p) == p.core_contribution # Null
NeedsPdf(p) == p.pdf_url = Null

\* lm.failed: ids whose extraction raised; lm.enrich: the enrichment's outcome
extractor_agent(state, lm) ==
    LET approved == SelectSeq(state.candidate_papers, IsApproved)
        approved_ordered ==
            IF HasSubQuestions(state.research_plan)
            THEN _prioritize_by_sub_questions(approved, state.research_plan)
            ELSE approved
        selected == Take(approved_ordered, CONTEXT_MAX_PAPERS)
        Succeeded(p) == p.paper_id \notin lm.failed
        ok == SelectSeq(selected, Succeeded)
        extracted == [i \in DOMAIN ok |->
                         [ok[i] EXCEPT !.core_contribution = "extracted"]]
        papers_needing_pdf == SelectSeq(extracted, NeedsPdf)
        enriched == [i \in DOMAIN extracted |->
                        IF lm.enrich = "found" /\ extracted[i].pdf_url = Null
                        THEN [extracted[i] EXCEPT !.pdf_url = "pdf"]
                        ELSE extracted[i]]
        enrich_ok == papers_needing_pdf # <<>> /\ lm.enrich # "error"
    IN IF approved = <<>>
       THEN [approved_papers |-> <<>>,
             selected_papers |-> <<>>,
             logs |-> <<Log("No approved papers to process", 0)>>,
             current_agent |-> "extractor",
             agent_handoffs |-> <<"retriever->extractor">>]
       ELSE [approved_papers |-> approved,
             selected_papers |-> IF enrich_ok THEN enriched ELSE extracted,
             logs |-> <<Log("Extracted contributions", Len(extracted))>>
                      \o (IF enrich_ok
                          THEN <<Log("Found full-text PDFs", 0)>> ELSE <<>>),
             current_agent |-> "extractor",
             agent_handoffs |-> <<"retriever->extractor">>]

\* the papers the writer drafts from
WriterPapers(state) == SelectSeq(state.approved_papers, HasContribution)

\* _build_paper_context: the papers the writer's prompt numbers [1], [2], ...
\* (the token budget does not truncate the few papers of this model)
_build_paper_context(state) ==
    LET papers == Take(WriterPapers(state), CONTEXT_MAX_PAPERS)
    IN IF HasSubQuestions(state.research_plan)
       THEN _prioritize_by_sub_questions(papers, state.research_plan)
       ELSE papers

IsRetry(state) == state.retry_count > 0 /\ state.qa_errors # <<>>

\* a writer that takes the outline path on a retry too
WriterModeIgnoringRetry(state) ==
    IF WriterPapers(state) = <<>> THEN "skip"
    ELSE IF state.is_continuation THEN "single"
    ELSE "outline"

\* "skip", "single" (one whole-draft call) or "outline" (outline + sections)
WriterMode(state) ==
    IF WriterPapers(state) = <<>> THEN "skip"
    ELSE IF IsRetry(state) \/ state.is_continuation THEN "single"
    ELSE "outline"

\* a writer that leaves the failed sections out of the draft
GatheredSectionsWithoutFailed(titles, results) ==
    LET ok == SelectSeq([i \in DOMAIN titles |-> i],
                        LAMBDA i : results[i].ok)
    IN [k \in DOMAIN ok |-> Section(titles[ok[k]], results[ok[k]].content)]

\* the loop over section_results: a section per result, in task order, a
\* failed one replaced by the placeholder under its own title
GatheredSections(titles, results) ==
    [i \in DOMAIN titles |->
        IF results[i].ok
        THEN Section(titles[i], results[i].content)
        ELSE Section(titles[i], <<Failed>>)]

\* lm.draft: the whole-draft call's DraftOutput; lm.outline: the DraftOutline;
\* lm.sections[i]: the outcome of the i-th section task
writer_agent(state, lm) ==
    LET is_retry == IsRetry(state)
        titles == lm.outline.section_titles
        sections == GatheredSections(titles, lm.sections)
        draft == IF WriterMode(state) = "single" THEN lm.draft
                 ELSE [title |-> lm.outline.title, sections |-> sections]
    IN IF WriterMode(state) = "skip"
       THEN [final_draft |-> None,
             logs |-> <<Log("No papers with extracted contributions, cannot draft review", 0)>>,
             current_agent |-> "writer",
             agent_handoffs |-> <<"extractor->writer">>]
       ELSE [final_draft |-> draft,
             draft_outline |-> IF WriterMode(state) = "single" THEN None ELSE lm.outline,
             logs |-> <<IF is_retry
                        THEN Log("Draft complete (retry)", state.retry_count)
                        ELSE Log("Draft complete", 0)>>,
             current_agent |-> "writer",
             agent_handoffs |-> <<IF is_retry THEN "critic->writer"
                                  ELSE "extractor->writer">>]

\* {int(m) for m in cite_pattern.findall(content)}
CitedIn(content) == {content[i].n : i \in {j \in DOMAIN content : content[j].k = "cite"}}

Err(kind, section, index) == [kind |-> kind, section |-> section, index |-> index]

\* a critic that does not ask a section for any citation
SectionErrorsWithoutUncited(section_idx, content, valid_indices) ==
    LET bad == SortedSeq(CitedIn(content) \ valid_indices)
    IN [i \in DOMAIN bad |-> Err("hallucinated", section_idx, bad[i])]

\* the rule errors of one section, in the order the critic appends them
SectionErrors(section_idx, content, valid_indices) ==
    LET bad == SortedSeq(CitedIn(content) \ valid_indices)
    IN [i \in DOMAIN bad |-> Err("hallucinated", section_idx, bad[i])]
       \o (IF CitedIn(content) = {} THEN <<Err("no_citations", section_idx, 0)>>
           ELSE <<>>)

\* rule checks that do not look for approved papers left uncited
RuleErrorsWithoutMissing(draft, num_papers) ==
    Concat([i \in DOMAIN draft.sections |->
               SectionErrors(i, draft.sections[i].content, 1..num_papers)])

RuleErrors(draft, num_papers) ==
    LET valid_indices == 1..num_papers
        all_cited == UNION {CitedIn(draft.sections[i].content) : i \in DOMAIN draft.sections}
        missing == SortedSeq(valid_indices \ all_cited)
    IN Concat([i \in DOMAIN draft.sections |->
                  SectionErrors(i, draft.sections[i].content, valid_indices)])
       \o [i \in DOMAIN missing |-> Err("missing", 0, missing[i])]

Min(a, b) == IF a < b THEN a ELSE b

\* a critic that also fails a draft whose ratio is the threshold itself
AtOrBelowEntailmentRatio(summary) ==
    summary.entails_count * 5 <= summary.total_verifications * 4

\* entailment_ratio < MIN_ENTAILMENT_RATIO (= 0.8 = 4/5)
BelowEntailmentRatio(summary) ==
    summary.entails_count * 5 < summary.total_verifications * 4

\* a critic that reports a failure without counting it
retry_count_not_counted(state) == state.retry_count

\* a critic that counts every failure twice
retry_count_counted_twice(state) == state.retry_count + 2

\* a critic that reports every failure as the first
retry_count_restarted(state) == 1

\* retry_count = state.get("retry_count", 0) + 1, on either kind of QA failure
retry_count_after_failure(state) == state.retry_count + 1

\* lm: the outcome of verify_draft_citations (raised, or a summary)
critic_agent(state, lm) ==
    LET draft == state.final_draft
        approved == state.approved_papers
        errors == RuleErrors(draft, Len(approved))
        verify == CLAIM_VERIFICATION_ENABLED /\ approved # <<>>
        claim_verification == IF verify /\ ~lm.raised THEN lm.summary ELSE None
        failed_details == [i \in 1..Min(3, lm.summary.failed) |->
                              Err("low_entailment", 0, i)]
    IN IF draft = None
       THEN [qa_errors |-> <<>>,
             logs |-> <<Log("QA skipped: no draft to evaluate", 0)>>,
             current_agent |-> "critic",
             agent_handoffs |-> <<"writer->critic">>]
       ELSE IF errors # <<>>
       THEN [qa_errors |-> errors,
             retry_count |-> retry_count_after_failure(state),
             logs |-> <<Log("QA failed with errors (retry n/3)", state.retry_count + 1)>>,
             current_agent |-> "critic",
             agent_handoffs |-> <<"writer->critic">>]
       ELSE IF verify /\ ~lm.raised /\ lm.summary.total_verifications > 0
               /\ BelowEntailmentRatio(lm.summary)
       THEN [qa_errors |-> failed_details,
             retry_count |-> retry_count_after_failure(state),
             claim_verification |-> claim_verification,
             logs |-> <<Log("QA failed: citation support ratio below threshold", 0)>>,
             current_agent |-> "critic",
             agent_handoffs |-> <<"writer->critic">>]
       ELSE [qa_errors |-> <<>>,
             retry_count |-> state.retry_count,
             claim_verification |-> claim_verification,
             logs |-> <<Log("QA passed: all citations verified", 0)>>,
             current_agent |-> "critic",
             agent_handoffs |-> <<"writer->critic">>]

reflection_agent(state, lm) ==
    IF state.qa_errors = <<>>
    THEN [reflection |-> None,
          logs |-> <<Log("Reflection skipped: no QA errors", 0)>>,
          current_agent |-> "reflection",
          agent_handoffs |-> <<"critic->reflection">>]
    ELSE [reflection |-> lm,
          logs |-> <<Log("Reflection: errors analyzed", Len(lm.entries)),
                     Log("Reflection: retry_target, should_retry", 0),
                     Log("Reflection: summary", 0)>>,
          current_agent |-> "reflection",
          agent_handoffs |-> <<"critic->reflection">>]

-----------------------------------------------------------------------------
(* Graph topology and routers (backend/workflow.py)                        *)

NODES == {"planner_agent", "retriever_agent", "extractor_agent",
          "writer_agent", "critic_agent", "reflection_agent"}

INTERRUPT_BEFORE == {"extractor_agent"}

_entry_router(state) ==
    IF state.is_continuation THEN "writer_agent" ELSE "planner_agent"

\* a critic router that gives up once the retries are used
_qa_router_counting(state) ==
    IF state.qa_errors = <<>> \/ state.retry_count >= MAX_QA_RETRIES
    THEN END ELSE "reflection_agent"

_qa_router(state) ==
    IF state.qa_errors = <<>> THEN END ELSE "reflection_agent"

\* a reflection router that trusts any retry_target
_reflection_router_unchecked(state) ==
    IF state.reflection = None \/ ~state.reflection.should_retry THEN END
    ELSE IF state.retry_count >= MAX_QA_RETRIES THEN END
    ELSE state.reflection.retry_target

_reflection_router(state) ==
    IF state.reflection = None \/ ~state.reflection.should_retry THEN END
    ELSE IF state.retry_count >= MAX_QA_RETRIES THEN END
    ELSE IF state.reflection.retry_target \in {"writer_agent", "retriever_agent"}
         THEN state.reflection.retry_target
    ELSE "writer_agent"

\* the node the graph's edges lead to after `node` wrote `state`
Successor(node, state) ==
    CASE node = START -> _entry_router(state)
      [] node = "planner_agent" -> "retriever_agent"
      [] node = "retriever_agent" -> "extractor_agent"
      [] node = "extractor_agent" -> "writer_agent"
      [] node = "writer_agent" -> "critic_agent"
      [] node = "critic_agent" -> _qa_router(state)
      [] node = "reflection_agent" -> _reflection_router(state)

\* the pending set of the checkpoint written as `node`
NextNodes(node, state) ==
    IF Successor(node, state) = END THEN {} ELSE {Successor(node, state)}

\* update(task_id, partial, as_node): without as_node the update is attributed
\* to the node that wrote last, and the pending set stays what it was
UpdateStateNext(as_node, state, pending) ==
    IF as_node = Null THEN pending ELSE NextNodes(as_node, state)

\* the run loop stops: nothing is pending, or an interrupt applies
Halted ==
    \/ next_nodes = {}
    \/ next_nodes \cap INTERRUPT_BEFORE # {} /\ ~resuming

-----------------------------------------------------------------------------
(* Citation normalization (backend/utils/citations.py)                     *)

\* a rendering that keeps the placeholders whose index is out of range
RenderContentUnchecked(content, max_index) ==
    [i \in DOMAIN content |->
        IF content[i].k = "cite" THEN Ref(content[i].n) ELSE content[i]]

\* re.sub(pattern, replace_match, content): {cite:N} becomes [N] when N is in
\* range and is removed otherwise
RenderContent(content, max_index) ==
    LET Kept(t) == t.k # "cite" \/ t.n \in 1..max_index
        kept == SelectSeq(content, Kept)
    IN [i \in DOMAIN kept |->
           IF kept[i].k = "cite" THEN Ref(kept[i].n) ELSE kept[i]]

\* the in-range indices of the [N] found in content
CitedIndices(content, max_index) ==
    {content[i].n : i \in {j \in DOMAIN content :
                              content[j].k = "ref" /\ content[j].n \in 1..max_index}}

\* a section whose cited_paper_ids are read from the placeholders that were
\* in the content before rendering
NormalizeSectionFromPlaceholders(section, papers) ==
    LET max_index == Len(papers)
        cited == SortedSeq(CitedIn(section.content) \cap 1..max_index)
    IN [section EXCEPT
           !.content = RenderContent(section.content, max_index),
           !.cited_paper_ids = [j \in DOMAIN cited |-> papers[cited[j]].paper_id]]

\* the body of the loop over draft.sections
NormalizeSection(section, papers) ==
    LET max_index == Len(papers)
        content == RenderContent(section.content, max_index)
        cited == SortedSeq(CitedIndices(content, max_index))
    IN [section EXCEPT
           !.content = content,
           !.cited_paper_ids = [j \in DOMAIN cited |-> papers[cited[j]].paper_id]]

normalize_draft_citations(draft, approved_papers) ==
    [draft EXCEPT !.sections =
        [i \in DOMAIN draft.sections |->
            NormalizeSection(draft.sections[i], approved_papers)]]

-----------------------------------------------------------------------------
(* Streaming event queue (backend/utils/event_queue.py)                    *)

\* A string is the sequence of its characters, so that "".join is
\* concatenation; characters outside ASCII are named by their code points.
Ni == "U+4F60"
Hao == "U+597D"
IdeographicFullStop == "U+3002"

FLUSH_INTERVAL_MS == 200
SEMANTIC_BOUNDARIES == {IdeographicFullStop, "U+FF01", "U+FF1F", ".", "!", "?", "U+000A"}
HEARTBEAT_SENTINEL == <<"__heartbeat__">>

\* the None that close() puts on the queue
Terminator == <<Null>>

\* tokens a producer may push
Tokens == { <<Ni>>, <<Hao>>, <<IdeographicFullStop>> }

\* __init__; elapsed_ms stands for time.monotonic() - _last_flush_time,
\* _flush_task is "none", "sleeping" (in its asyncio.sleep) or "done"
StreamingEventQueue ==
    [_buffer |-> <<>>, _queue |-> <<>>, elapsed_ms |-> 0, _closed |-> FALSE,
     _flush_task |-> "none", _stats_total_tokens |-> 0, _stats_total_flushes |-> 0]

\* a flush that puts the buffer on the queue and keeps it
_try_flush_keeping_buffer(q, force) ==
    IF q._buffer = <<>> THEN q
    ELSE IF force \/ q.elapsed_ms >= FLUSH_INTERVAL_MS
    THEN [q EXCEPT !.elapsed_ms = 0,
                   !._stats_total_flushes = @ + 1,
                   !._queue = Append(@, Concat(q._buffer))]
    ELSE q

\* the queue object after _try_flush(force)
_try_flush(q, force) ==
    IF q._buffer = <<>> THEN q
    ELSE IF force \/ q.elapsed_ms >= FLUSH_INTERVAL_MS
    THEN [q EXCEPT !._buffer = <<>>,
                   !.elapsed_ms = 0,
                   !._stats_total_flushes = @ + 1,
                   !._queue = Append(@, Concat(q._buffer))]
    ELSE q

\* a boundary test that knows the ASCII marks only
_should_flush_on_ascii_boundary(token) ==
    \E i \in DOMAIN token : token[i] \in {".", "!", "?"}

_should_flush_on_boundary(token) ==
    \E i \in DOMAIN token : token[i] \in SEMANTIC_BOUNDARIES

\* the queue object after push(token)
push(q, token) ==
    LET appended == [q EXCEPT !._buffer = Append(@, token),
                              !._stats_total_tokens = @ + 1]
    IN IF q._closed THEN q
       ELSE IF _should_flush_on_boundary(token) THEN _try_flush(appended, TRUE)
       ELSE appended

\* a close that sends the terminator and drops what is buffered
close_dropping_buffer(q) ==
    [q EXCEPT !._buffer = <<>>,
              !._flush_task = "none",
              !._queue = Append(@, Terminator)]

\* the rest of close(), once the flush task is gone: the remaining buffer as
\* one chunk, then the terminator
close_flush(q) ==
    LET flushed == IF q._buffer # <<>>
                   THEN [q EXCEPT !._buffer = <<>>,
                                  !._stats_total_flushes = @ + 1,
                                  !._queue = Append(@, Concat(q._buffer))]
                   ELSE q
    IN [flushed EXCEPT !._flush_task = "none",
                       !._queue = Append(@, Terminator)]

InitEventQueue ==
    /\ event_queue = StreamingEventQueue
    /\ sleep_ms = 0
    /\ closing = FALSE
    /\ pushed = <<>>
    /\ yielded = <<>>
    /\ consumer = "running"
    /\ queue_op = "init"

\* start(): the periodic flush task is created once; one created after close
\* finds _closed set and ends at once
StartCall ==
    /\ event_queue._flush_task = "none"
    /\ ~closing
    /\ event_queue' = [event_queue EXCEPT !._flush_task =
                          IF event_queue._closed THEN "done" ELSE "sleeping"]
    /\ sleep_ms' = IF event_queue._closed THEN sleep_ms ELSE FLUSH_INTERVAL_MS
    /\ UNCHANGED <<closing, pushed, yielded, consumer, queue_op, session_vars,
                   llm_vars, router_vars, call_vars>>

\* one flush interval passes: the sleep of the flush task is over, and the
\* last flush is at least an interval ago
Tick ==
    /\ \/ event_queue.elapsed_ms < FLUSH_INTERVAL_MS
       \/ event_queue._flush_task = "sleeping" /\ sleep_ms > 0
    /\ event_queue' = [event_queue EXCEPT !.elapsed_ms = FLUSH_INTERVAL_MS]
    /\ sleep_ms' = IF event_queue._flush_task = "sleeping" THEN 0 ELSE sleep_ms
    /\ UNCHANGED <<closing, pushed, yielded, consumer, queue_op, session_vars,
                   llm_vars, router_vars, call_vars>>

\* _periodic_flush: the sleep is over, _try_flush(force=False), sleep again
PeriodicFlush ==
    /\ event_queue._flush_task = "sleeping"
    /\ ~event_queue._closed
    /\ sleep_ms = 0
    /\ event_queue' = _try_flush(event_queue, FALSE)
    /\ sleep_ms' = FLUSH_INTERVAL_MS
    /\ UNCHANGED <<closing, pushed, yielded, consumer, queue_op, session_vars,
                   llm_vars, router_vars, call_vars>>

\* await push(token): it runs to its end without suspending
PushCall ==
    \E token \in Tokens :
        /\ event_queue._closed \/ Len(pushed) < MaxPushes
        /\ event_queue' = push(event_queue, token)
        /\ pushed' = IF event_queue._closed THEN pushed ELSE Append(pushed, token)
        /\ queue_op' = IF event_queue._closed THEN "push_ignored" ELSE "push"
        /\ UNCHANGED <<sleep_ms, closing, yielded, consumer, session_vars,
                   llm_vars, router_vars, call_vars>>

\* await close(): with a flush task it sets _closed, cancels the task and
\* suspends until the task is gone; without one it runs to its end
CloseCall ==
    /\ IF event_queue._closed
       THEN /\ queue_op' = "close_ignored"
            /\ UNCHANGED <<event_queue, closing>>
       ELSE IF event_queue._flush_task = "none"
       THEN /\ event_queue' = close_flush([event_queue EXCEPT !._closed = TRUE])
            /\ queue_op' = "close"
            /\ UNCHANGED closing
       ELSE /\ event_queue' = [event_queue EXCEPT !._closed = TRUE,
                                                  !._flush_task = "done"]
            /\ closing' = TRUE
            /\ queue_op' = "close_suspended"
    /\ UNCHANGED <<sleep_ms, pushed, yielded, consumer, session_vars,
                   llm_vars, router_vars, call_vars>>

\* the cancelled task has ended and close() goes on
CloseResume ==
    /\ closing
    /\ event_queue' = close_flush(event_queue)
    /\ closing' = FALSE
    /\ queue_op' = "close"
    /\ UNCHANGED <<sleep_ms, pushed, yielded, consumer, session_vars,
                   llm_vars, router_vars, call_vars>>

\* consume(): an item arrived within HEARTBEAT_INTERVAL_S
ConsumeItem ==
    /\ consumer = "running"
    /\ event_queue._queue # <<>>
    /\ event_queue' = [event_queue EXCEPT !._queue = Tail(@)]
    /\ IF Head(event_queue._queue) = Terminator
       THEN consumer' = "done" /\ UNCHANGED yielded
       ELSE yielded' = Append(yielded, Head(event_queue._queue))
            /\ UNCHANGED consumer
    /\ UNCHANGED <<sleep_ms, closing, pushed, queue_op, session_vars,
                   llm_vars, router_vars, call_vars>>

\* consume(): nothing arrived within HEARTBEAT_INTERVAL_S, which is longer
\* than a flush interval
ConsumeTimeout ==
    /\ consumer = "running"
    /\ event_queue._queue = <<>>
    /\ event_queue.elapsed_ms >= FLUSH_INTERVAL_MS
    /\ Len(SelectSeq(yielded, LAMBDA c : c = HEARTBEAT_SENTINEL)) < MaxHeartbeats
    /\ yielded' = Append(yielded, HEARTBEAT_SENTINEL)
    /\ UNCHANGED <<event_queue, sleep_ms, closing, pushed, consumer, queue_op,
                   session_vars,
                   llm_vars, router_vars, call_vars>>

NextQueue ==
    \/ StartCall
    \/ Tick
    \/ PeriodicFlush
    \/ PushCall
    \/ CloseCall
    \/ CloseResume
    \/ ConsumeItem
    \/ ConsumeTimeout

-----------------------------------------------------------------------------
(* The producer of a stream (backend/main.py: stream_research)             *)

\* the events the producer pushes: each is one line, its text one symbol
UpdateEvent == <<"update", "U+000A">>
CompletedEvent == <<"completed", "U+000A">>
ErrorEvent == <<"error", "U+000A">>

\* how graph.astream and the code after it may end
StreamOutcomes == {"completed", "paused", "node_raised", "completion_raised"}

\* a producer that sends nothing when the run stops at a pause
terminal_events_unless_paused(outcome) ==
    IF outcome = "paused" THEN <<>>
    ELSE IF outcome = "completed" THEN <<CompletedEvent>> ELSE <<ErrorEvent>>

\* what the producer pushes once the loop over astream is left: the completed
\* event, or the error event of the except clause
terminal_events(outcome) ==
    IF outcome \in {"completed", "paused"} THEN <<CompletedEvent>> ELSE <<ErrorEvent>>

RECURSIVE PushAll(_, _)
PushAll(q, events) ==
    IF events = <<>> THEN q ELSE PushAll(push(q, Head(events)), Tail(events))

InitStream == producer = "none"

\* event_generator: await event_queue.start(); asyncio.create_task(producer())
EventGeneratorStart ==
    /\ producer = "none"
    /\ producer' = "streaming"
    /\ event_queue' = [event_queue EXCEPT !._flush_task = "sleeping"]
    /\ sleep_ms' = FLUSH_INTERVAL_MS
    /\ UNCHANGED <<closing, pushed, yielded, consumer, queue_op, OutsideStream>>

\* the loop over graph.astream: the events of one node update
ProducerUpdate ==
    /\ producer = "streaming"
    /\ Len(pushed) < MaxPushes
    /\ event_queue' = push(event_queue, UpdateEvent)
    /\ pushed' = Append(pushed, UpdateEvent)
    /\ queue_op' = "push"
    /\ UNCHANGED <<producer, sleep_ms, closing, yielded, consumer, OutsideStream>>

\* astream is exhausted (the graph ended or paused) or a node raised, or the
\* code that builds the completed event raised: the terminal event is pushed
ProducerEnds ==
    \E outcome \in StreamOutcomes :
        /\ producer = "streaming"
        /\ producer' = "finally"
        /\ event_queue' = PushAll(event_queue, terminal_events(outcome))
        /\ pushed' = pushed \o terminal_events(outcome)
        /\ queue_op' = "push"
        /\ UNCHANGED <<sleep_ms, closing, yielded, consumer, OutsideStream>>

\* finally: await event_queue.close(), which suspends for the flush task
ProducerClose ==
    /\ producer = "finally"
    /\ producer' = "returned"
    /\ event_queue' = [event_queue EXCEPT !._closed = TRUE, !._flush_task = "done"]
    /\ closing' = TRUE
    /\ queue_op' = "close_suspended"
    /\ UNCHANGED <<sleep_ms, pushed, yielded, consumer, OutsideStream>>

NextStream ==
    \/ EventGeneratorStart
    \/ ProducerUpdate
    \/ ProducerEnds
    \/ ProducerClose
    \/ Tick
    \/ PeriodicFlush
    \/ CloseResume
    \/ ConsumeItem
    \/ ConsumeTimeout

-----------------------------------------------------------------------------
(* LM calls in flight (backend/nodes.py: extractor_agent, writer_agent)    *)

LLM_CONCURRENCY == 2

\* the papers extractor_agent extracts in one run
Selected == {"P1", "P2", "P3"}

\* an LM call: the task that made it and which of the task's calls it is
Call(task, call) == [task |-> task, call |-> call]

\* _extract_contribution: two structured completions gathered
ExtractionCalls(p) == {Call(p, "core"), Call(p, "structured")}

\* writer_agent: one _generate_section call per title of the outline, gathered
SectionCalls(outline) ==
    {Call("writer", outline.section_titles[i]) : i \in DOMAIN outline.section_titles}

InitLLM ==
    /\ extraction = [p \in Selected |-> "idle"]
    /\ semaphore = 0
    /\ lm_calls = {}
    /\ writer_task = "idle"
    /\ section_results = <<>>
    /\ writer_draft = None

\* extractor_agent: a fresh Semaphore(LLM_CONCURRENCY) and one
\* extract_with_limit task per paper, gathered
ExtractorGather ==
    /\ \A p \in Selected : extraction[p] = "idle"
    /\ extraction' = [p \in Selected |-> "waiting"]
    /\ semaphore' = LLM_CONCURRENCY
    /\ UNCHANGED <<lm_calls, writer_task, section_results, writer_draft,
                   session_vars, queue_vars, router_vars, call_vars>>

\* extract_with_limit: a task takes a permit and _extract_contribution
\* starts its two calls together
Acquire ==
    \E p \in Selected :
        /\ extraction[p] = "waiting"
        /\ semaphore > 0
        /\ semaphore' = semaphore - 1
        /\ extraction' = [extraction EXCEPT ![p] = "running"]
        /\ lm_calls' = lm_calls \cup ExtractionCalls(p)
        /\ UNCHANGED <<writer_task, section_results, writer_draft, session_vars,
                       queue_vars, router_vars, call_vars>>

\* an extraction call returns or raises.  The gather of the two calls ends
\* with the second result or with the first exception, and the task then
\* leaves `async with` and gives its permit back; the sibling of a call that
\* raised is not cancelled and stays in flight
ExtractionCallEnds ==
    \E c \in lm_calls, ok \in BOOLEAN :
        /\ c.task \in Selected
        /\ lm_calls' = lm_calls \ {c}
        /\ IF extraction[c.task] # "running"
           THEN UNCHANGED <<extraction, semaphore>>
           ELSE IF ~ok
           THEN /\ extraction' = [extraction EXCEPT ![c.task] = "failed"]
                /\ semaphore' = semaphore + 1
           ELSE IF ExtractionCalls(c.task) \cap lm_calls = {c}
           THEN /\ extraction' = [extraction EXCEPT ![c.task] = "done"]
                /\ semaphore' = semaphore + 1
           ELSE UNCHANGED <<extraction, semaphore>>
        /\ UNCHANGED <<writer_task, section_results, writer_draft, session_vars,
                       queue_vars, router_vars, call_vars>>

\* writer_agent, once the extractor's gather has every task's result: the
\* whole-draft call of a retry or continuation, or the outline call
WriterStarts ==
    \E mode \in {"draft", "outline"} :
        /\ writer_task = "idle"
        /\ \A p \in Selected : extraction[p] \in {"done", "failed"}
        /\ writer_task' = mode
        /\ lm_calls' = lm_calls \cup {Call("writer", mode)}
        /\ UNCHANGED <<extraction, semaphore, section_results, writer_draft,
                       session_vars, queue_vars, router_vars, call_vars>>

\* a call of the writer returns or raises: after the outline the section
\* calls start together; their gather keeps each result, exception or not,
\* at the index of its task and returns when the last of them has ended;
\* the writer then builds the draft from the results in task order
WriterCallEnds ==
    \E c \in lm_calls, outline \in OutlineChoices :
        /\ c.task = "writer"
        /\ IF writer_task = "outline"
           THEN /\ \E ok \in BOOLEAN :
                     IF ok
                     THEN /\ lm_calls' = (lm_calls \ {c}) \cup SectionCalls(outline)
                          /\ writer_task' = "sections"
                     ELSE /\ lm_calls' = lm_calls \ {c}
                          /\ writer_task' = "failed"
                /\ UNCHANGED <<section_results, writer_draft>>
           ELSE IF writer_task = "draft"
           THEN /\ \E ok \in BOOLEAN :
                     writer_task' = IF ok THEN "done" ELSE "failed"
                /\ lm_calls' = lm_calls \ {c}
                /\ UNCHANGED <<section_results, writer_draft>>
           ELSE \E reply \in SectionReplies :
                  LET titles == outline.section_titles
                      i == CHOOSE k \in DOMAIN titles : titles[k] = c.call
                      result == structured_completion(reply, ReviewSectionFields)
                      results == [k \in DOMAIN section_results \cup {i} |->
                                     IF k = i THEN result ELSE section_results[k]]
                  IN /\ lm_calls' = lm_calls \ {c}
                     /\ section_results' = results
                     /\ IF \E d \in lm_calls \ {c} : d.task = "writer"
                        THEN /\ writer_task' = "sections"
                             /\ UNCHANGED writer_draft
                        ELSE /\ writer_task' = "done"
                             /\ writer_draft' =
                                   [title |-> outline.title,
                                    sections |-> GatheredSections(titles, results)]
        /\ UNCHANGED <<extraction, semaphore, session_vars, queue_vars,
                       router_vars, call_vars>>

NextLLM ==
    \/ ExtractorGather
    \/ Acquire
    \/ ExtractionCallEnds
    \/ WriterStarts
    \/ WriterCallEnds

-----------------------------------------------------------------------------
(* Model routing (backend/llm/router.py)                                   *)

\* CostTier (backend/schemas.py): the ordinal of a cost tier
LOW == 1
MEDIUM == 2
HIGH == 3

_COST_TIER_MAP == [low |-> LOW, medium |-> MEDIUM, high |-> HIGH]

TaskType == {"planning", "extraction", "writing", "qa", "reflection"}

TaskRequirement(reasoning, structured, long_context, creativity, max_cost, latency) ==
    [needs_reasoning |-> reasoning,
     needs_structured_output |-> structured,
     needs_long_context |-> long_context,
     prefers_creativity |-> creativity,
     max_cost_tier |-> max_cost,
     latency_sensitive |-> latency]

TASK_REQUIREMENTS ==
    [t \in TaskType |->
        CASE t = "planning"   -> TaskRequirement(TRUE, TRUE, FALSE, FALSE, "high", FALSE)
          [] t = "extraction" -> TaskRequirement(FALSE, TRUE, FALSE, FALSE, "medium", TRUE)
          [] t = "writing"    -> TaskRequirement(FALSE, FALSE, TRUE, TRUE, "high", FALSE)
          [] t = "qa"         -> TaskRequirement(FALSE, TRUE, FALSE, FALSE, "low", TRUE)
          [] t = "reflection" -> TaskRequirement(TRUE, TRUE, FALSE, FALSE, "medium", FALSE)]

\* ModelConfig, the fields the router reads
ModelConfig(id, cost_tier, reasoning, creativity, latency, capable, enabled) ==
    [id |-> id, cost_tier |-> cost_tier, reasoning_score |-> reasoning,
     creativity_score |-> creativity, latency_score |-> latency,
     supports_structured_output |-> capable, supports_long_context |-> capable,
     enabled |-> enabled]

\* configs a registry may hold: those of the router tests, a second model
\* with the scores of gpt-4o-mini, a medium-tier one and a disabled one
ModelChoices ==
    { ModelConfig("openai:gpt-4o", HIGH, 8, 8, 6, TRUE, TRUE),
      ModelConfig("openai:gpt-4o-mini", LOW, 6, 5, 9, TRUE, TRUE),
      ModelConfig("deepseek:deepseek-chat", LOW, 7, 6, 7, TRUE, TRUE),
      ModelConfig("ollama:llama3", LOW, 4, 4, 8, FALSE, TRUE),
      ModelConfig("qwen:qwen-turbo", LOW, 6, 5, 9, TRUE, TRUE),
      ModelConfig("anthropic:medium", MEDIUM, 9, 7, 5, TRUE, TRUE),
      ModelConfig("openai:disabled", LOW, 10, 10, 10, TRUE, FALSE) }

\* registries: the configs in the order of the dict, one per id
RegistryChoices ==
    { r \in UNION {[1..n -> ModelChoices] : n \in 0..MaxModels} :
        \A i, j \in DOMAIN r : i # j => r[i].id # r[j].id }

\* override_model_id of a call: none, ids a registry may hold (a model short
\* of capabilities, a disabled one, a costly one), an unknown id
OverrideChoices ==
    {Null, "ollama:llama3", "openai:disabled", "openai:gpt-4o", "nonexistent:model"}

\* a cost filter that lets every tier through
_cost_allowed_any(model_cost, max_cost) == TRUE

_cost_allowed(model_cost, max_cost) == model_cost <= _COST_TIER_MAP[max_cost]

\* the score in tenths, so that the weights 2.0, 1.5 and 0.8 are integers
_score_model(model, task_type) ==
    LET req == TASK_REQUIREMENTS[task_type]
    IN (IF req.needs_reasoning THEN model.reasoning_score * 20 ELSE 0)
       + (IF req.prefers_creativity THEN model.creativity_score * 15 ELSE 0)
       + (IF req.latency_sensitive THEN model.latency_score * 15 ELSE 0)
       + (4 - model.cost_tier) * 8

\* sorted(candidates, key=score, reverse=True): stable, so models of equal
\* score keep the order they had
RECURSIVE Ranked(_, _)
Ranked(candidates, task_type) ==
    IF candidates = <<>> THEN <<>>
    ELSE LET n == Len(candidates)
             x == candidates[n]
             front == Ranked(SubSeq(candidates, 1, n - 1), task_type)
             ahead == {i \in DOMAIN front :
                          _score_model(front[i], task_type)
                             >= _score_model(x, task_type)}
             k == Cardinality(ahead)
         IN SubSeq(front, 1, k) \o <<x>> \o SubSeq(front, k + 1, Len(front))

\* a router that honours an override only when the model is enabled
select_model_enabled_override(task_type, available_models, override_model_id) ==
    LET req == TASK_REQUIREMENTS[task_type]
        Eligible(model) ==
            /\ model.enabled
            /\ ~(req.needs_structured_output /\ ~model.supports_structured_output)
            /\ ~(req.needs_long_context /\ ~model.supports_long_context)
            /\ _cost_allowed(model.cost_tier, req.max_cost_tier)
        candidates == SelectSeq(available_models, Eligible)
    IN IF /\ override_model_id # Null
          /\ \E i \in DOMAIN available_models :
                /\ available_models[i].id = override_model_id
                /\ available_models[i].enabled
       THEN override_model_id
       ELSE IF candidates = <<>> THEN Null
       ELSE Ranked(candidates, task_type)[1].id

select_model(task_type, available_models, override_model_id) ==
    LET req == TASK_REQUIREMENTS[task_type]
        Eligible(model) ==
            /\ model.enabled
            /\ ~(req.needs_structured_output /\ ~model.supports_structured_output)
            /\ ~(req.needs_long_context /\ ~model.supports_long_context)
            /\ _cost_allowed(model.cost_tier, req.max_cost_tier)
        candidates == SelectSeq(available_models, Eligible)
    IN IF /\ override_model_id # Null
          /\ \E i \in DOMAIN available_models :
                available_models[i].id = override_model_id
       THEN override_model_id
       ELSE IF candidates = <<>> THEN Null
       ELSE Ranked(candidates, task_type)[1].id

\* chain.remove(primary); chain.insert(0, primary) when primary is in the
\* chain, chain.insert(0, primary) when it is not
MoveToHead(chain, primary) ==
    <<primary>> \o SelectSeq(chain, LAMBDA id : id # primary)

get_fallback_chain(task_type, available_models, primary_model_id) ==
    LET req == TASK_REQUIREMENTS[task_type]
        Eligible(model) ==
            /\ model.enabled
            /\ ~(req.needs_structured_output /\ ~model.supports_structured_output)
        candidates == SelectSeq(available_models, Eligible)
        ranked == Ranked(candidates, task_type)
        chain == [i \in DOMAIN ranked |-> ranked[i].id]
    IN IF primary_model_id # Null THEN MoveToHead(chain, primary_model_id)
       ELSE chain

InitRouter ==
    /\ routing = None
    /\ selected_model = Null
    /\ chain_call = None
    /\ fallback_chain = <<>>

\* one call of get_fallback_chain
GetFallbackChainCall ==
    /\ routing = None
    /\ chain_call = None
    /\ \E task_type \in TaskType, available_models \in RegistryChoices,
          primary_model_id \in OverrideChoices :
          /\ chain_call' = [task_type |-> task_type,
                            available_models |-> available_models,
                            primary_model_id |-> primary_model_id]
          /\ fallback_chain' =
                get_fallback_chain(task_type, available_models, primary_model_id)
    /\ UNCHANGED <<routing, selected_model, session_vars, queue_vars, llm_vars, call_vars>>

\* one call of select_model
SelectModelCall ==
    /\ routing = None
    /\ chain_call = None
    /\ \E task_type \in TaskType, available_models \in RegistryChoices,
          override_model_id \in OverrideChoices :
          /\ routing' = [task_type |-> task_type,
                         available_models |-> available_models,
                         override_model_id |-> override_model_id]
          /\ selected_model' =
                select_model(task_type, available_models, override_model_id)
    /\ UNCHANGED <<chain_call, fallback_chain, session_vars, queue_vars, llm_vars, call_vars>>

NextRouter ==
    \/ SelectModelCall
    \/ GetFallbackChainCall

-----------------------------------------------------------------------------
(* Handlers (backend/main.py)                                              *)

\* the record kept in `last`: the operation, a handler's request (paper_ids,
\* message, model_id) and response (status, detail, approved_count), the
\* writer's mode, the number of candidates an approval flipped, and the
\* final_draft of a completed event
Op(op, mode) ==
    [op |-> op, status |-> 0, detail |-> "", approved_count |-> 0, mode |-> mode,
     paper_ids |-> {}, message |-> "", model_id |-> Null, flipped |-> 0,
     final_draft |-> None, lm_replies |-> <<>>]

Response(op, status, detail, count) ==
    [Op(op, "") EXCEPT !.status = status, !.detail = detail, !.approved_count = count]

Message(content, action) == [role |-> "user", content |-> content, action |-> action]

\* the input start_research gives to graph.ainvoke
InitialState(query, model_id) ==
    [task_id |-> "t1",
     user_query |-> query,
     search_keywords |-> <<>>,
     candidate_papers |-> <<>>,
     approved_papers |-> <<>>,
     selected_papers |-> <<>>,
     final_draft |-> None,
     qa_errors |-> <<>>,
     retry_count |-> 0,
     logs |-> <<>>,
     messages |-> <<Message(query, "start_research")>>,
     is_continuation |-> FALSE,
     current_agent |-> "",
     agent_handoffs |-> <<>>,
     draft_outline |-> None,
     research_plan |-> None,
     reflection |-> None,
     claim_verification |-> None,
     model_id |-> model_id]

\* approve_papers: the candidates with is_approved set on the matching ids
UpdatedCandidates(candidates, paper_ids) ==
    [i \in DOMAIN candidates |->
        IF candidates[i].paper_id \in paper_ids
        THEN [candidates[i] EXCEPT !.is_approved = TRUE]
        ELSE candidates[i]]

\* a count of the candidates the call flips from unapproved to approved
approved_count_newly_flipped(candidates, paper_ids) ==
    Cardinality({i \in DOMAIN candidates :
                    candidates[i].paper_id \in paper_ids /\ ~candidates[i].is_approved})

\* approve_papers: approved_count after the loop over the candidates
approved_count(candidates, paper_ids) ==
    Cardinality({i \in DOMAIN candidates : candidates[i].paper_id \in paper_ids})

\* an approval written as the graph's start
approve_as_start == START

\* approve_papers: the node the state update is written as (none is given)
approve_as_node == Null

\* an approval that does not look at the pending node
approve_response_any_time(state, pending, paper_ids) ==
    IF state = NoSession
    THEN Response("approve_papers", 404, "not found", 0)
    ELSE IF approved_count(state.candidate_papers, paper_ids) = 0
    THEN Response("approve_papers", 400, "no paper_ids match", 0)
    ELSE Response("approve_papers", 202, "",
                  approved_count(state.candidate_papers, paper_ids))

\* approve_papers: the response, from the snapshot read at its start
approve_response(state, pending, paper_ids) ==
    IF state = NoSession
    THEN Response("approve_papers", 404, "not found", 0)
    ELSE IF "extractor_agent" \notin pending
    THEN Response("approve_papers", 400, "not waiting for approval", 0)
    ELSE IF approved_count(state.candidate_papers, paper_ids) = 0
    THEN Response("approve_papers", 400, "no paper_ids match", 0)
    ELSE Response("approve_papers", 202, "",
                  approved_count(state.candidate_papers, paper_ids))

\* a continue that leaves the retry counter of the previous turn in place
continue_patch_keeps_retry_count(message, model_id) ==
    [user_query |-> message,
     messages |-> <<Message(message, "continue_research")>>,
     is_continuation |-> TRUE,
     qa_errors |-> <<>>,
     model_id |-> model_id]

\* a continue that does not mark the turn as a continuation
continue_patch_unmarked(message, model_id) ==
    [user_query |-> message,
     messages |-> <<Message(message, "continue_research")>>,
     is_continuation |-> FALSE,
     qa_errors |-> <<>>,
     retry_count |-> 0,
     model_id |-> model_id]

\* continue_research: the partial state written as __start__
continue_patch(message, model_id) ==
    [user_query |-> message,
     messages |-> <<Message(message, "continue_research")>>,
     is_continuation |-> TRUE,
     qa_errors |-> <<>>,
     retry_count |-> 0,
     model_id |-> model_id]

continue_response(state) ==
    IF state = NoSession
    THEN Response("continue_research", 404, "not found", 0)
    ELSE IF state.final_draft = None
    THEN Response("continue_research", 400, "no draft exists yet", 0)
    ELSE Response("continue_research", 202, "", 0)

-----------------------------------------------------------------------------
(* Actions                                                                 *)

\* stream_research.producer: the papers the draft is normalized against
NormalizationPapers(state) ==
    IF state.selected_papers # <<>> THEN state.selected_papers
    ELSE SelectSeq(state.candidate_papers, IsApproved)

\* stream_research.producer: final_draft of the completed event
CompletedDraft(state) ==
    IF state.final_draft = None THEN None
    ELSE normalize_draft_citations(state.final_draft, NormalizationPapers(state))

\* critic_agent called on its own: the fields of the state it reads and the
\* outcome of verify_draft_citations
CriticStates ==
    { [final_draft |-> draft,
       approved_papers |-> Take(CHOOSE c \in CandidateChoices : c # <<>>, n),
       retry_count |-> retry_count] :
        draft \in DraftChoices \cup {None}, n \in 0..2,
        retry_count \in 0..(MAX_QA_RETRIES - 1) }

CriticVerifications ==
    { [raised |-> TRUE, summary |-> Summary(0, 0)] }
    \cup { [raised |-> FALSE, summary |-> Summary(t, e)] :
              <<t, e>> \in {<<t, e>> \in (0..MaxVerifications) \X (0..MaxVerifications) :
                               e <= t} }

InitCritic ==
    /\ critic_state = None
    /\ critic_update = None

CriticCall ==
    /\ critic_state = None
    /\ \E state \in CriticStates, lm \in CriticVerifications :
          /\ critic_state' = [state |-> state, lm |-> lm]
          /\ critic_update' = critic_agent(state, lm)
    /\ UNCHANGED OutsideCritic

NextCritic == CriticCall

\* extractor_agent called on its own: three candidates with any approvals, no
\* plan or a plan whose first sub-question is about the third paper, any set
\* of failing extractions, any outcome of the full-text enrichment
ExtractorCandidates ==
    { [i \in 1..3 |->
          [<<Paper("P1", {"attention"}, Null), Paper("P2", {"bert"}, Null),
             Paper("P3", {"graph"}, Null)>>[i] EXCEPT !.is_approved = (i \in approved)]] :
        approved \in SUBSET (1..3) }
    \cup { <<>> }

ExtractorPlans ==
    { None,
      [reasoning |-> "r",
       sub_questions |-> << [keywords |-> <<"bert">>, priority |-> 2],
                            [keywords |-> <<"graph">>, priority |-> 1] >>] }

ExtractorOutcomes ==
    { [failed |-> failed, enrich |-> enrich] :
        failed \in SUBSET {"P1", "P2", "P3"}, enrich \in {"found", "error"} }

InitExtractor ==
    /\ extractor_state = None
    /\ extractor_update = None

ExtractorCall ==
    /\ extractor_state = None
    /\ \E candidates \in ExtractorCandidates, plan \in ExtractorPlans,
          lm \in ExtractorOutcomes :
          LET state == [candidate_papers |-> candidates, research_plan |-> plan]
          IN /\ extractor_state' = [state |-> state, lm |-> lm]
             /\ extractor_update' = extractor_agent(state, lm)
    /\ UNCHANGED OutsideExtractor

NextExtractor == ExtractorCall

\* approve_papers calls on one session paused before the extractor, each in
\* two steps: the snapshot read (aget_state) and the write (aupdate_state),
\* which the event loop may interleave with the steps of another call
ApproveCallers == 1..MaxApproveCalls

ApproveIdChoices == { {"P1"}, {"P2"}, {"P1", "P2"}, {"P9"} }

ApproveCall(pc, paper_ids, candidates) ==
    [pc |-> pc, paper_ids |-> paper_ids, candidates |-> candidates]

InitApprove ==
    /\ paused_candidates = CHOOSE c \in CandidateChoices : c # <<>>
    /\ approve_calls = [c \in ApproveCallers |-> ApproveCall("idle", {}, <<>>)]

\* snapshot = await graph.aget_state(config), and the checks on it
ApproveRead ==
    \E c \in ApproveCallers, paper_ids \in ApproveIdChoices :
        /\ approve_calls[c].pc = "idle"
        /\ approve_calls' =
              [approve_calls EXCEPT ![c] =
                  IF approved_count(paused_candidates, paper_ids) = 0
                  THEN ApproveCall("rejected", paper_ids, paused_candidates)
                  ELSE ApproveCall("read", paper_ids, paused_candidates)]
        /\ UNCHANGED paused_candidates
        /\ UNCHANGED OutsideApprove

\* await graph.aupdate_state(config, {"candidate_papers": updated_candidates})
ApproveWrite ==
    \E c \in ApproveCallers :
        /\ approve_calls[c].pc = "read"
        /\ paused_candidates' =
              UpdatedCandidates(approve_calls[c].candidates, approve_calls[c].paper_ids)
        /\ approve_calls' = [approve_calls EXCEPT ![c].pc = "accepted"]
        /\ UNCHANGED OutsideApprove

NextApprove ==
    \/ ApproveRead
    \/ ApproveWrite

-----------------------------------------------------------------------------
(* Retry of a request to the LM (backend/utils/llm_client.py)              *)

\* stop_after_attempt of the decorator of _call_llm
STOP_AFTER_ATTEMPT == 4

\* the exception types the decorator retries, and two it does not (the
\* ValueError is the one raised on an empty response)
RetriedErrors ==
    {"httpx.TimeoutException", "httpx.ConnectError", "RateLimitError",
     "APIConnectionError", "APITimeoutError", "InternalServerError"}
OtherErrors == {"BadRequestError", "ValueError"}
AttemptOutcomes == {"response"} \cup RetriedErrors \cup OtherErrors

\* how one attempt is followed: _call_llm carries the retry decorator,
\* _call_llm_streaming carries none
AfterAttempt(streaming, attempts) ==
    LET outcome == attempts[Len(attempts)]
    IN  IF outcome = "response" THEN "returned"
        ELSE IF /\ ~streaming
                /\ outcome \in RetriedErrors
                /\ Len(attempts) < STOP_AFTER_ATTEMPT
             THEN "attempting"
             ELSE "raised"

InitRetry == llm_request = [pc |-> "idle", streaming |-> FALSE, attempts |-> <<>>]

\* structured_completion: streaming when a token callback is set
RequestStarts ==
    \E streaming \in BOOLEAN :
        /\ llm_request.pc = "idle"
        /\ llm_request' = [pc |-> "attempting", streaming |-> streaming, attempts |-> <<>>]
        /\ UNCHANGED OutsideRetry

\* one execution of client.chat.completions.create and of the code after it
RequestAttempt ==
    \E outcome \in AttemptOutcomes :
        /\ llm_request.pc = "attempting"
        /\ LET attempts == Append(llm_request.attempts, outcome)
           IN  llm_request' = [llm_request EXCEPT
                   !.attempts = attempts,
                   !.pc = AfterAttempt(llm_request.streaming, attempts)]
        /\ UNCHANGED OutsideRetry

NextRetry ==
    \/ RequestStarts
    \/ RequestAttempt

-----------------------------------------------------------------------------
(* Continue calls in a row, and what the writer then reads                 *)
(* (backend/main.py: continue_research; backend/nodes.py: writer_agent)    *)

MAX_CONVERSATION_TURNS == 5

\* the user messages of a session: its start and its earlier continues
History ==
    [i \in 1..(2 * MAX_CONVERSATION_TURNS + 1) |->
        IF i = 1 THEN Message("attention", "start_research")
        ELSE Message("earlier follow-up", "continue_research")]

HistoryLengths ==
    {1, 2, 2 * MAX_CONVERSATION_TURNS - 1, 2 * MAX_CONVERSATION_TURNS,
     2 * MAX_CONVERSATION_TURNS + 1}

\* checkpoints of a session whose turn ended with a draft
ContinueCheckpoints ==
    { [InitialState("attention", Null) EXCEPT
           !.final_draft = draft,
           !.messages = SubSeq(History, 1, n),
           !.qa_errors = qa_errors,
           !.retry_count = retry_count] :
        draft \in DraftChoices, n \in HistoryLengths,
        qa_errors \in {<<>>, <<"Citation [9] out of bounds">>},
        retry_count \in 0..MAX_QA_RETRIES }

\* a context made of the first turns of the conversation, not the last
_build_conversation_context_of_first_turns(messages) ==
    LET max == 2 * MAX_CONVERSATION_TURNS
        recent == IF Len(messages) > max THEN SubSeq(messages, 1, max) ELSE messages
    IN  [i \in DOMAIN recent |->
            <<IF recent[i].role = "user" THEN "User" ELSE "Assistant", recent[i].content>>]

\* one line "<role label>: <content>" per message of the last max_turns * 2
_build_conversation_context(messages) ==
    LET max == 2 * MAX_CONVERSATION_TURNS
        recent == IF Len(messages) > max
                  THEN SubSeq(messages, Len(messages) - max + 1, Len(messages))
                  ELSE messages
    IN  [i \in DOMAIN recent |->
            <<IF recent[i].role = "user" THEN "User" ELSE "Assistant", recent[i].content>>]

\* title and section headings of the draft at hand
existing_draft_summary(state) ==
    IF state.final_draft = None THEN <<>>
    ELSE <<state.final_draft.title,
           [i \in DOMAIN state.final_draft.sections |->
               state.final_draft.sections[i].heading]>>

\* what writer_agent reads of the state on a continuation turn
WriterInputs(state) ==
    [user_query |-> state.user_query,
     conversation_context |-> _build_conversation_context(state.messages),
     existing_draft_summary |-> existing_draft_summary(state),
     qa_errors |-> state.qa_errors,
     retry_count |-> state.retry_count]

InitContinue == continuation = [state |-> None, requests |-> <<>>]

\* a turn of the session ended with a draft
TurnEndsWithDraft ==
    \E checkpoint \in ContinueCheckpoints :
        /\ continuation.state = None
        /\ continuation' = [state |-> checkpoint, requests |-> <<>>]
        /\ UNCHANGED OutsideContinue

\* POST /api/research/continue, accepted; no stream is opened before the next
ContinueAccepted ==
    \E req \in ContinueRequests :
        /\ continuation.state # None
        /\ continue_response(continuation.state).status = 202
        /\ Len(continuation.requests) < MaxRepeatedContinues
        /\ continuation' =
               [state |-> Merge(continuation.state,
                                continue_patch(req.message, req.model_id)),
                requests |-> Append(continuation.requests, req)]
        /\ UNCHANGED OutsideContinue

NextContinue ==
    \/ TurnEndsWithDraft
    \/ ContinueAccepted

-----------------------------------------------------------------------------
(* JsonFieldExtractor (backend/utils/event_queue.py)                       *)

\* a text is a sequence of characters; these two are written by name
QUOTE == "\""
BACKSLASH == "\\"
LineFeed == "U+000A"
Tab == "U+0009"

\* the field whose values are extracted in the model
FIELD_NAME == <<"i", "d">>

\* the key/value pairs JSON texts are made of: key, the characters between
\* key and value, and the (unescaped) string value
JsonPairs ==
    { [key |-> FIELD_NAME, colon |-> <<":", " ">>, value |-> <<"a", LineFeed>>],
      [key |-> FIELD_NAME, colon |-> <<" ", ":">>, value |-> <<QUOTE, "b">>],
      [key |-> FIELD_NAME, colon |-> <<":">>, value |-> <<BACKSLASH>>],
      [key |-> FIELD_NAME, colon |-> <<":", " ">>, value |-> <<>>],
      [key |-> <<"x">>, colon |-> <<":", " ">>, value |-> FIELD_NAME],
      [key |-> <<"x">>, colon |-> <<":">>, value |-> <<QUOTE>> \o FIELD_NAME] }

JsonObjects ==
    UNION { [1..n -> JsonPairs] : n \in 1..MaxPairs }

\* json.dumps of a string value
RECURSIVE EscapeJson(_)
EscapeJson(value) ==
    IF value = <<>> THEN <<>>
    ELSE LET ch == Head(value)
         IN (IF ch = QUOTE THEN <<BACKSLASH, QUOTE>>
             ELSE IF ch = BACKSLASH THEN <<BACKSLASH, BACKSLASH>>
             ELSE IF ch = LineFeed THEN <<BACKSLASH, "n">>
             ELSE IF ch = Tab THEN <<BACKSLASH, "t">>
             ELSE <<ch>>) \o EscapeJson(Tail(value))

PairText(pair) ==
    <<QUOTE>> \o pair.key \o <<QUOTE>> \o pair.colon
        \o <<QUOTE>> \o EscapeJson(pair.value) \o <<QUOTE>>

RECURSIVE PairsText(_)
PairsText(pairs) ==
    IF Len(pairs) = 1 THEN PairText(pairs[1])
    ELSE PairText(pairs[1]) \o <<",", " ">> \o PairsText(Tail(pairs))

\* the JSON text of an object
JsonText(object) == <<"{">> \o PairsText(object) \o <<"}">>

IsSpace(ch) == ch \in {" ", LineFeed, Tab}

\* the state after __init__
JsonFieldExtractor(field_name, buffer_until_complete) ==
    [_key_pattern |-> <<QUOTE>> \o field_name \o <<QUOTE>>,
     _state |-> "SCANNING",
     _escape_next |-> FALSE,
     _scan_buf |-> <<>>,
     _buffer_until_complete |-> buffer_until_complete,
     _value_buf |-> <<>>]

\* str.find(sub, i): the first position from i on where sub starts; 0 when
\* there is none (positions count from 1)
Find(buf, sub, i) ==
    LET starts == { p \in i..(Len(buf) - Len(sub) + 1) :
                      SubSeq(buf, p, p + Len(sub) - 1) = sub }
    IN  IF starts = {} THEN 0 ELSE CHOOSE p \in starts : \A q \in starts : p <= q

\* s[-n:] for n >= 1
LastChars(s, n) == IF Len(s) <= n THEN s ELSE SubSeq(s, Len(s) - n + 1, Len(s))

\* the value of an escape sequence
Unescaped(ch) == IF ch = "n" THEN LineFeed ELSE IF ch = "t" THEN Tab ELSE ch

\* "".join(parts) if parts else None
_emit(parts) == [emitted |-> parts # <<>>, text |-> Concat(parts)]

\* a scanner that keeps nothing of a buffer in which the key was not found
KeptOfScanBufNothing(buf, key_len) == <<>>

\* what is kept of a buffer in which the key was not found
KeptOfScanBuf(buf, key_len) == LastChars(buf, key_len - 1)

\* the while loop of feed, from index i on, with the parts collected so far
RECURSIVE FeedLoop(_, _, _)
FeedLoop(ext, i, parts) ==
    LET buf == ext._scan_buf
        key_len == Len(ext._key_pattern)
    IN
    IF i > Len(buf)
    THEN IF ext._buffer_until_complete /\ ext._state = "IN_STRING"
         THEN [extractor |-> [ext EXCEPT !._scan_buf = <<>>,
                                         !._value_buf = @ \o parts],
               emitted |-> FALSE, text |-> <<>>]
         ELSE [extractor |-> [ext EXCEPT !._scan_buf = <<>>],
               emitted |-> _emit(parts).emitted, text |-> _emit(parts).text]
    ELSE
    LET ch == buf[i]
    IN
    IF ext._state = "SCANNING"
    THEN LET pos == Find(buf, ext._key_pattern, i)
         IN  IF pos = 0
             THEN [extractor |-> [ext EXCEPT !._scan_buf = KeptOfScanBuf(buf, key_len)],
                   emitted |-> _emit(parts).emitted, text |-> _emit(parts).text]
             ELSE FeedLoop([ext EXCEPT !._state = "SAW_KEY"], pos + key_len, parts)
    ELSE IF ext._state = "SAW_KEY"
    THEN FeedLoop([ext EXCEPT !._state = IF ch = ":" THEN "SAW_COLON"
                                         ELSE IF ~IsSpace(ch) THEN "SCANNING"
                                         ELSE @],
                  i + 1, parts)
    ELSE IF ext._state = "SAW_COLON"
    THEN FeedLoop([ext EXCEPT !._state = IF ch = QUOTE THEN "IN_STRING"
                                         ELSE IF ~IsSpace(ch) THEN "SCANNING"
                                         ELSE @],
                  i + 1, parts)
    ELSE \* IN_STRING
    IF ext._escape_next
    THEN FeedLoop([ext EXCEPT !._escape_next = FALSE], i + 1,
                  Append(parts, <<Unescaped(ch)>>))
    ELSE IF ch = BACKSLASH
    THEN FeedLoop([ext EXCEPT !._escape_next = TRUE], i + 1, parts)
    ELSE IF ch = QUOTE
    THEN IF ext._buffer_until_complete
         THEN LET complete == Concat(ext._value_buf \o parts)
              IN  FeedLoop([ext EXCEPT !._state = "SCANNING", !._value_buf = <<>>],
                           i + 1,
                           IF complete # <<>> THEN <<complete>> ELSE <<>>)
         ELSE FeedLoop([ext EXCEPT !._state = "SCANNING"], i + 1, parts)
    ELSE FeedLoop(ext, i + 1, Append(parts, <<ch>>))

\* JsonFieldExtractor.feed: the extractor afterwards and what is returned
feed(ext, token) ==
    FeedLoop([ext EXCEPT !._scan_buf = @ \o token], 1, <<>>)

InitFieldFeed == field_feed = None

\* an extractor is created for a JSON text that will be streamed
ExtractorCreated ==
    \E object \in JsonObjects, buffer_until_complete \in BOOLEAN :
        /\ field_feed = None
        /\ field_feed' = [object |-> object,
                          fed |-> 0,
                          extractor |-> JsonFieldExtractor(FIELD_NAME,
                                                           buffer_until_complete),
                          emissions |-> <<>>]
        /\ UNCHANGED OutsideFieldFeed

\* the next token of the text, of any length, is fed
FeedToken ==
    /\ field_feed # None
    /\ \E n \in 1..(Len(JsonText(field_feed.object)) - field_feed.fed) :
          LET token == SubSeq(JsonText(field_feed.object),
                              field_feed.fed + 1, field_feed.fed + n)
              r == feed(field_feed.extractor, token)
          IN  field_feed' = [field_feed EXCEPT
                  !.fed = @ + n,
                  !.extractor = r.extractor,
                  !.emissions = IF r.emitted
                                THEN Append(@, [text |-> r.text])
                                ELSE @]
    /\ UNCHANGED OutsideFieldFeed

NextFieldFeed ==
    \/ ExtractorCreated
    \/ FeedToken

-----------------------------------------------------------------------------
(* Prioritization by sub-questions, applied by the extractor and again by  *)
(* the writer (backend/nodes.py: _prioritize_by_sub_questions)             *)

\* the papers lists are drawn from
PriorityPapers ==
    { Paper("P1", {"attention"}, "c1"), Paper("P2", {"attention", "bert"}, "c2"),
      Paper("P3", {"graph"}, "c3"), Paper("P4", {"bert"}, "c4") }

\* lists of distinct papers, in any order
PaperLists ==
    { papers \in UNION { [1..n -> PriorityPapers] : n \in 0..MaxPapers } :
        \A i, j \in DOMAIN papers : i # j => papers[i] # papers[j] }

\* plans: priorities out of list order, equal priorities and equal keywords,
\* keywords no title has, more sub-questions than papers
PriorityPlans ==
    { [reasoning |-> "r",
       sub_questions |-> << [keywords |-> <<"attention", "bert">>, priority |-> 2],
                            [keywords |-> <<"bert">>, priority |-> 1] >>],
      [reasoning |-> "r",
       sub_questions |-> << [keywords |-> <<"attention">>, priority |-> 1],
                            [keywords |-> <<"attention">>, priority |-> 1] >>],
      [reasoning |-> "r",
       sub_questions |-> << [keywords |-> <<"quantum">>, priority |-> 1] >>],
      [reasoning |-> "r",
       sub_questions |-> << [keywords |-> <<"graph">>, priority |-> 3],
                            [keywords |-> <<"bert">>, priority |-> 1],
                            [keywords |-> <<"quantum">>, priority |-> 2],
                            [keywords |-> <<"attention">>, priority |-> 4] >>] }

InitPrioritize == prioritized = None

\* extractor_agent: the approved papers are prioritized
PrioritizeCall ==
    \E papers \in PaperLists, research_plan \in PriorityPlans :
        /\ prioritized = None
        /\ prioritized' =
               [papers |-> papers,
                research_plan |-> research_plan,
                calls |-> 1,
                result |-> _prioritize_by_sub_questions(papers, research_plan)]
        /\ UNCHANGED OutsidePrioritize

\* _build_paper_context: the writer prioritizes the list it is given
PrioritizeAgain ==
    /\ prioritized # None
    /\ prioritized.calls = 1
    /\ prioritized' =
           [prioritized EXCEPT
               !.calls = 2,
               !.result = _prioritize_by_sub_questions(prioritized.result,
                                                       prioritized.research_plan)]
    /\ UNCHANGED OutsidePrioritize

NextPrioritize ==
    \/ PrioritizeCall
    \/ PrioritizeAgain

-----------------------------------------------------------------------------
(* Claim extraction (backend/utils/claim_verifier.py: extract_all_claims)  *)

CLAIM_BATCH_SIZE == 3

\* a draft, as far as extraction reads it: per section whether its content
\* holds a {cite:N}; sections are counted from 0 as in the code
CitingDrafts ==
    UNION { [1..n -> BOOLEAN] : n \in 1..MaxSections }

\* the content of section i of the draft
SectionContent(i) == [content_of_section |-> i]

\* the indices of the sections with a citation, ascending
section_indices_with_citations(citing) ==
    LET Cites(i) == citing[i + 1]
    IN  SelectSeq([k \in 1..Len(citing) |-> k - 1], Cites)

\* indices[i : i + CLAIM_BATCH_SIZE] for i = 0, CLAIM_BATCH_SIZE, ...
RECURSIVE ClaimBatches(_)
ClaimBatches(indices) ==
    IF indices = <<>> THEN <<>>
    ELSE IF Len(indices) <= CLAIM_BATCH_SIZE THEN <<indices>>
    ELSE <<SubSeq(indices, 1, CLAIM_BATCH_SIZE)>>
            \o ClaimBatches(SubSeq(indices, CLAIM_BATCH_SIZE + 1, Len(indices)))

\* what the LM may answer to an extraction call: claims that carry citations,
\* none that do, or a failure
ExtractionReplies == {"claims", "no_claims", "raises"}

\* _extract_claims_batch, up to the LM call: sections[idx] for each index of
\* the group, an IndexError when idx is not an index of sections
sections_data(section_group, sections) ==
    IF \E k \in DOMAIN section_group : section_group[k] + 1 > Len(sections)
    THEN [raised |-> TRUE, data |-> <<>>]
    ELSE [raised |-> FALSE,
          data |-> [k \in DOMAIN section_group |->
                       [section_index |-> section_group[k],
                        text |-> sections[section_group[k] + 1]]]]

\* the per-section calls of the fallback: extract_claims_from_section, each
\* with the LM's reply to it
FallbackCalls(batch, replies) ==
    [k \in DOMAIN batch |->
        [kind |-> "section", batch |-> batch,
         sent |-> <<[section_index |-> batch[k], text |-> SectionContent(batch[k])]>>,
         reply |-> replies[k]]]

InitClaimExtraction == claim_extraction = None

\* extract_all_claims is called on a draft
ExtractAllClaimsCalled ==
    \E citing \in CitingDrafts, reply \in ExtractionReplies :
        /\ claim_extraction = None
        /\ claim_extraction' =
               IF Len(citing) <= 1
               THEN [citing |-> citing, batches |-> <<>>,
                     calls |-> FallbackCalls(section_indices_with_citations(citing),
                                             <<reply>>)]
               ELSE [citing |-> citing,
                     batches |-> ClaimBatches(section_indices_with_citations(citing)),
                     calls |-> <<>>]
        /\ UNCHANGED OutsideClaimExtraction

\* one turn of the loop over the batches: the batch call, and the per-section
\* calls when it gave nothing
BatchExtracted ==
    \E reply \in ExtractionReplies, replies \in [1..CLAIM_BATCH_SIZE -> ExtractionReplies] :
        /\ claim_extraction # None
        /\ claim_extraction.batches # <<>>
        /\ LET batch == Head(claim_extraction.batches)
               contents == [k \in DOMAIN batch |-> SectionContent(batch[k])]
               prepared == sections_data(batch, contents)
               batch_call == [kind |-> "batch", batch |-> batch,
                              sent |-> prepared.data, reply |-> reply]
           IN  claim_extraction' =
                   [claim_extraction EXCEPT
                       !.batches = Tail(@),
                       !.calls =
                           IF prepared.raised
                           THEN @ \o FallbackCalls(batch, replies)
                           ELSE IF reply = "claims"
                           THEN Append(@, batch_call)
                           ELSE Append(@, batch_call) \o FallbackCalls(batch, replies)]
        /\ UNCHANGED OutsideClaimExtraction

NextClaimExtraction ==
    \/ ExtractAllClaimsCalled
    \/ BatchExtracted

InitCalls == InitCritic /\ InitExtractor /\ InitApprove /\ InitStream /\ InitRetry /\ InitContinue /\ InitFieldFeed /\ InitPrioritize /\ InitClaimExtraction

InitSession ==
    /\ values = NoSession
    /\ next_nodes = {}
    /\ run = "idle"
    /\ resuming = FALSE
    /\ last = Op("init", "")
    /\ turn_steps = 0
    /\ writer_runs = 0
    /\ continues = 0
    /\ node_runs = 0

\* the components before their first call
InitComponents == InitEventQueue /\ InitLLM /\ InitRouter /\ InitCalls

Init == InitSession /\ diag = FALSE /\ InitComponents

InitDiag == InitSession /\ diag = TRUE /\ InitComponents

\* POST /api/research/start: a new thread, run until the graph halts
start_research ==
    /\ run = "idle"
    /\ values = NoSession
    /\ \E req \in StartRequests :
          /\ values' = Channels(InitialState(req.query, req.model_id), diag)
          /\ next_nodes' = NextNodes(START, InitialState(req.query, req.model_id))
    /\ run' = "invoke"
    /\ resuming' = FALSE
    /\ last' = Op("start_research", "")
    /\ turn_steps' = 0
    /\ writer_runs' = 0
    /\ UNCHANGED <<continues, node_runs, diag, queue_vars, llm_vars,
                 router_vars, call_vars>>

\* start_research returns the candidates once ainvoke has halted
start_response ==
    /\ run = "invoke"
    /\ Halted
    /\ run' = "idle"
    /\ resuming' = FALSE
    /\ last' = Response("start_research", 200, "", 0)
    /\ UNCHANGED <<values, next_nodes, turn_steps, writer_runs, continues, node_runs, diag, queue_vars, llm_vars,
                 router_vars, call_vars>>

\* GET /api/research/stream: graph.astream(None): continue from the pending node
stream_research ==
    /\ run = "idle"
    /\ IF values = NoSession
       THEN /\ last' = Response("stream_research", 404, "not found", 0)
            /\ UNCHANGED <<run, resuming>>
       ELSE /\ run' = "stream"
            /\ resuming' = TRUE
            /\ last' = Op("stream_research", "")
    /\ UNCHANGED <<values, next_nodes, turn_steps, writer_runs, continues, node_runs, diag, queue_vars, llm_vars,
                 router_vars, call_vars>>

\* the producer's completed event, once astream has halted
stream_completed ==
    /\ run = "stream"
    /\ Halted
    /\ run' = "idle"
    /\ resuming' = FALSE
    /\ last' = [Op("completed", "") EXCEPT !.final_draft = CompletedDraft(values)]
    /\ UNCHANGED <<values, next_nodes, turn_steps, writer_runs, continues, node_runs, diag, queue_vars, llm_vars,
                 router_vars, call_vars>>

\* the writer is pending and will call the LM
WriterCalls == next_nodes = {"writer_agent"} /\ WriterMode(values) # "skip"

\* the response model of the writer's first call: the whole draft or the outline
WriterCallFields ==
    IF WriterMode(values) = "single" THEN DraftOutputFields ELSE DraftOutlineFields

\* replies the LM may give to the writer's first call
WriterCallReplies == { Reply(WriterCallFields, <<>>), SchemaReply, SchemaTypeReply }

\* a node raises (an LM or adapter call fails): the producer emits an error
\* event; no checkpoint is written and the node stays pending
stream_error ==
    /\ run = "stream"
    /\ ~Halted
    /\ run' = "idle"
    /\ resuming' = FALSE
    /\ \/ /\ last' = Op("error", "")
          /\ ~WriterCalls
       \/ /\ WriterCalls
          /\ \E reply \in WriterCallReplies :
                /\ ~structured_completion(reply, WriterCallFields).ok
                /\ last' = [Op("error", WriterMode(values))
                               EXCEPT !.lm_replies = <<reply.keys>>]
    /\ UNCHANGED <<values, next_nodes, turn_steps, writer_runs, continues, node_runs, diag, queue_vars, llm_vars,
                 router_vars, call_vars>>

\* the scheduler runs the pending node, merges its update, writes the checkpoint
RunNodeWithReplies(node, update, mode, lm_replies) ==
    /\ run # "idle"
    /\ next_nodes = {node}
    /\ ~Halted
    /\ diag => node_runs < MaxNodeRuns
    /\ node_runs' = IF diag THEN node_runs + 1 ELSE node_runs
    /\ values' = Merge(values, update)
    /\ next_nodes' = NextNodes(node, Merge(values, update))
    /\ resuming' = FALSE
    /\ last' = [Op(node, mode) EXCEPT !.lm_replies = lm_replies]
    /\ turn_steps' = turn_steps + 1
    /\ writer_runs' = writer_runs + (IF node = "writer_agent" THEN 1 ELSE 0)
    /\ UNCHANGED <<run, continues, diag, queue_vars, llm_vars,
                 router_vars, call_vars>>

RunNode(node, update, mode) == RunNodeWithReplies(node, update, mode, <<>>)

PlannerStep ==
    \E plan \in PlanChoices, keywords \in KeywordChoices :
        RunNode("planner_agent",
                planner_agent(values, [plan |-> plan, keywords |-> keywords]), "")

RetrieverStep ==
    \E papers \in CandidateChoices :
        RunNode("retriever_agent", retriever_agent(values, [papers |-> papers]), "")

ExtractorStep ==
    \E lm \in ExtractionChoices :
        RunNode("extractor_agent", extractor_agent(values, lm), "")

\* the section outcomes of an outline: one per title
SectionOutcomes(outline) == [DOMAIN outline.section_titles -> SectionResults]

\* the replies to the section calls of an outline: one per title
SectionReplyChoices(outline) == [DOMAIN outline.section_titles -> SectionReplies]

WriterStep ==
    \E draft \in DraftChoices, outline \in OutlineChoices :
        \E replies \in SectionReplyChoices(outline) :
            LET sections == [i \in DOMAIN replies |->
                                structured_completion(replies[i], ReviewSectionFields)]
            IN /\ sections \in SectionOutcomes(outline)
               /\ RunNodeWithReplies("writer_agent",
                      writer_agent(values, [draft |-> draft, outline |-> outline,
                                            sections |-> sections]),
                      WriterMode(values),
                      IF WriterMode(values) = "outline"
                      THEN [i \in DOMAIN replies |-> replies[i].keys]
                      ELSE <<>>)

CriticStep ==
    \E verification \in VerificationChoices :
        RunNode("critic_agent", critic_agent(values, verification), "")

ReflectionStep ==
    \E reflection \in ReflectionChoices :
        RunNode("reflection_agent", reflection_agent(values, reflection), "")

\* POST /api/research/approve
approve_papers ==
    /\ run = "idle"
    /\ \E paper_ids \in PaperIdChoices :
          LET response == approve_response(values, next_nodes, paper_ids)
              update == [candidate_papers |->
                            UpdatedCandidates(values.candidate_papers, paper_ids)]
              flipped == IF response.status = 202
                         THEN Cardinality({i \in DOMAIN values.candidate_papers :
                                  /\ ~values.candidate_papers[i].is_approved
                                  /\ update.candidate_papers[i].is_approved})
                         ELSE 0
          IN /\ last' = [response EXCEPT !.paper_ids = paper_ids, !.flipped = flipped]
             /\ IF response.status = 202
                THEN /\ values' = Merge(values, update)
                     /\ next_nodes' = UpdateStateNext(approve_as_node,
                                                      Merge(values, update), next_nodes)
                ELSE UNCHANGED <<values, next_nodes>>
    /\ UNCHANGED <<run, resuming, turn_steps, writer_runs, continues, node_runs, diag, queue_vars, llm_vars,
                 router_vars, call_vars>>

\* POST /api/research/continue
continue_research ==
    /\ run = "idle"
    /\ \E req \in ContinueRequests :
          LET response == continue_response(values)
              patch == continue_patch(req.message, req.model_id)
          IN /\ last' = [response EXCEPT !.message = req.message,
                                          !.model_id = req.model_id]
             /\ IF response.status = 202
                THEN /\ continues < MaxContinues
                     /\ values' = Merge(values, patch)
                     /\ next_nodes' = UpdateStateNext(START, Merge(values, patch),
                                                      next_nodes)
                     /\ continues' = continues + 1
                     /\ turn_steps' = 0
                     /\ writer_runs' = 0
                ELSE UNCHANGED <<values, next_nodes, continues, turn_steps, writer_runs>>
    /\ UNCHANGED <<run, resuming, node_runs, diag, queue_vars, llm_vars,
                 router_vars, call_vars>>

Next ==
    \/ start_research
    \/ start_response
    \/ stream_research
    \/ stream_completed
    \/ stream_error
    \/ PlannerStep
    \/ RetrieverStep
    \/ ExtractorStep
    \/ WriterStep
    \/ CriticStep
    \/ ReflectionStep
    \/ approve_papers
    \/ continue_research

Spec == Init /\ [][Next]_vars

\* the same session with the diagnostic channels recorded; a failing node
\* writes no checkpoint, so stream_error is left out
NextDiag ==
    \/ start_research
    \/ start_response
    \/ stream_research
    \/ stream_completed
    \/ PlannerStep
    \/ RetrieverStep
    \/ ExtractorStep
    \/ WriterStep
    \/ CriticStep
    \/ ReflectionStep
    \/ approve_papers
    \/ continue_research

SpecDiag == InitDiag /\ [][NextDiag]_vars

\* one streaming event queue with its producer, timer and consumer
SpecQueue == Init /\ [][NextQueue]_vars

\* the same queue with a consumer that keeps consuming and an event loop that
\* resumes a suspended close()
SpecQueueFair == SpecQueue /\ WF_vars(ConsumeItem) /\ WF_vars(CloseResume)

\* the LM calls of one extractor run and the writer run after it
SpecLLM == Init /\ [][NextLLM]_vars

\* calls of the model router
SpecRouter == Init /\ [][NextRouter]_vars

\* calls of critic_agent
SpecCritic == Init /\ [][NextCritic]_vars

\* calls of extractor_agent
SpecExtractor == Init /\ [][NextExtractor]_vars

\* approve calls on a paused session
SpecApprove == Init /\ [][NextApprove]_vars

\* one stream: the producer task, the flush task and the consumer, each of
\* which the event loop keeps running; the graph run ends (every turn does)
SpecStream ==
    /\ Init /\ [][NextStream]_vars
    /\ WF_vars(EventGeneratorStart) /\ WF_vars(ProducerEnds) /\ WF_vars(ProducerClose)
    /\ WF_vars(CloseResume) /\ WF_vars(ConsumeItem)

\* one request to the LM and its attempts
SpecRetry == Init /\ [][NextRetry]_vars

\* continue calls in a row on a finished session
SpecContinue == Init /\ [][NextContinue]_vars

\* a JSON text fed to a field extractor in tokens
SpecFieldFeed == Init /\ [][NextFieldFeed]_vars

\* a paper list prioritized by the extractor and again by the writer
SpecPrioritize == Init /\ [][NextPrioritize]_vars

\* one claim extraction over a draft
SpecClaimExtraction == Init /\ [][NextClaimExtraction]_vars

-----------------------------------------------------------------------------
(* Properties                                                              *)

\* this step wrote the checkpoint of `node`
Ran(node) == last'.op = node /\ turn_steps' = turn_steps + 1

\* this step is an approve_papers call answered with `status`
Approved(status) == last'.op = "approve_papers" /\ last'.status = status

\* the candidates whose id is among the ids of the request
Matched(candidates, paper_ids) ==
    {i \in DOMAIN candidates : candidates[i].paper_id \in paper_ids}

\* C1: in every checkpoint retry_count is a natural number no greater than
\* MAX_QA_RETRIES
C1_RetryCountBounded ==
    values # NoSession => values.retry_count \in 0..MAX_QA_RETRIES

\* a continuation turn has used all its retries
C1_Witness ==
    /\ values # NoSession
    /\ values.is_continuation
    /\ values.retry_count = MAX_QA_RETRIES

\* C2: every turn terminates: each node a turn runs is counted, a turn runs
\* the planner once and the writer -> critic -> reflection cycle (with the
\* retriever and extractor before it, at most) no more than MAX_QA_RETRIES
\* times, and what is pending while a run goes on is a node of the graph
C2_TurnTerminates ==
    /\ turn_steps <= 1 + 5 * MAX_QA_RETRIES
    /\ writer_runs <= MAX_QA_RETRIES
    /\ next_nodes \in {{}} \cup {{n} : n \in NODES}

\* the third cycle of a turn ended the turn
C2_Witness ==
    /\ turn_steps = 1 + 5 * MAX_QA_RETRIES
    /\ writer_runs = MAX_QA_RETRIES
    /\ last.op = "reflection_agent"
    /\ next_nodes = {}

\* C3: after the retriever the run stops with the extractor pending, on first
\* entry and after a retriever retry; the extractor runs only as the first
\* node of a resumed stream; an accepted approval leaves the extractor
\* pending and runs nothing
C3_Step ==
    /\ Ran("retriever_agent") => next_nodes' = {"extractor_agent"} /\ Halted'
    /\ Ran("extractor_agent") => run = "stream" /\ last.op = "stream_research"
    /\ Approved(202) =>
          /\ next_nodes' = {"extractor_agent"}
          /\ run' = "idle"
          /\ turn_steps' = turn_steps
          /\ values'.approved_papers = values.approved_papers

C3_PauseBeforeExtractor == [][C3_Step]_vars

\* the extractor ran after a retriever retry, with an approval in between
C3_Witness ==
    /\ values # NoSession
    /\ last.op = "extractor_agent"
    /\ values.retry_count > 0
    /\ values.approved_papers # <<>>

\* C4: approve_papers is refused with an error when the session is not
\* paused at the extractor, and with a different error when it is paused and
\* no provided id matches a candidate; a refused call leaves the state as it was
C4_Step ==
    last'.op = "approve_papers" /\ values # NoSession =>
        /\ "extractor_agent" \notin next_nodes =>
              last'.status = 400 /\ last'.detail = "not waiting for approval"
        /\ /\ "extractor_agent" \in next_nodes
           /\ Matched(values.candidate_papers, last'.paper_ids) = {}
           => last'.status = 400 /\ last'.detail = "no paper_ids match"
        /\ last'.status # 202 => values' = values /\ next_nodes' = next_nodes

C4_ApproveRefused == [][C4_Step]_vars

\* an approval naming a candidate was refused after the turn had ended
C4_Witness ==
    /\ values # NoSession
    /\ last.op = "approve_papers"
    /\ last.detail = "not waiting for approval"
    /\ Matched(values.candidate_papers, last.paper_ids) # {}
    /\ values.final_draft # None

\* the candidates an approval step flips from unapproved to approved
NewlyFlipped ==
    {i \in DOMAIN values.candidate_papers :
        /\ ~values.candidate_papers[i].is_approved
        /\ values'.candidate_papers[i].is_approved}

\* approving ids that are all approved already leaves candidate_papers as it was
C5_Idempotent ==
    (\A i \in Matched(values.candidate_papers, last'.paper_ids) :
        values.candidate_papers[i].is_approved)
    => values'.candidate_papers = values.candidate_papers

\* C5 as stated: approval is idempotent on ids already approved, and
\* approved_count counts only the candidates newly flipped
C5_CountsNewlyFlipped ==
    [][Approved(202) =>
          /\ C5_Idempotent
          /\ last'.approved_count = Cardinality(NewlyFlipped)]_vars

\* C5: approval is idempotent on ids already approved, and approved_count
\* counts every candidate whose id is among the provided ids, approved
\* before the call or not
C5_CountsMatched ==
    [][Approved(202) =>
          /\ C5_Idempotent
          /\ last'.approved_count =
                Cardinality(Matched(values.candidate_papers, last'.paper_ids))
          /\ \A i \in DOMAIN values.candidate_papers :
                values'.candidate_papers[i].is_approved =
                    (\/ values.candidate_papers[i].is_approved
                     \/ i \in Matched(values.candidate_papers, last'.paper_ids))]_vars

\* an approval of ids that were all approved already was accepted
C5_Witness ==
    /\ last.op = "approve_papers"
    /\ last.status = 202
    /\ last.flipped = 0
    /\ last.approved_count > 0

\* this step is a continue_research call that was accepted
Continued == last'.op = "continue_research" /\ last'.status = 202

\* the fields a continue writes
ContinueFields ==
    {"user_query", "messages", "is_continuation", "qa_errors", "retry_count", "model_id"}

\* C6: a continue sets user_query to the message, appends exactly one user
\* message, sets is_continuation, clears qa_errors, zeroes retry_count, changes
\* model_id only when a model_id is supplied, leaves every other field as it
\* was and makes the graph's start the next entry point
C6_ContinueFrame ==
    [][Continued =>
          /\ values'.user_query = last'.message
          /\ Len(values'.messages) = Len(values.messages) + 1
          /\ IsPrefix(values.messages, values'.messages)
          /\ values'.messages[Len(values'.messages)].role = "user"
          /\ values'.messages[Len(values'.messages)].content = last'.message
          /\ values'.is_continuation
          /\ values'.qa_errors = <<>>
          /\ values'.retry_count = 0
          /\ values'.model_id = IF last'.model_id # Null THEN last'.model_id
                                ELSE values.model_id
          /\ \A k \in DOMAIN values \ ContinueFields : values'[k] = values[k]
          /\ next_nodes' = NextNodes(START, values')]_vars

\* the turn under way was started by a continue
InContinuationTurn == values # NoSession /\ values.is_continuation

\* C7 as stated: after a continue the next agent to run is the writer, in
\* single-call mode, and planner, retriever, approval pause and extractor do
\* not run again in that turn
C7_OnlyWriterSide ==
    [][/\ Continued => next_nodes' = {"writer_agent"}
       /\ InContinuationTurn /\ turn_steps = 0 /\ turn_steps' = 1 =>
             last'.op = "writer_agent" /\ last'.mode = "single"
       /\ InContinuationTurn =>
             /\ ~Ran("planner_agent")
             /\ ~Ran("retriever_agent")
             /\ ~Ran("extractor_agent")]_vars

\* C7: after a continue the next agent to run is the writer, in single-call
\* mode when it has a paper with a contribution (it skips the draft
\* otherwise); the planner does not run in that turn, and retriever, approval
\* pause and extractor run in it only after the writer, when reflection sends
\* the retry to the retriever
C7_ReentersAtWriter ==
    [][/\ Continued => next_nodes' = {"writer_agent"}
       /\ InContinuationTurn /\ turn_steps = 0 /\ turn_steps' = 1 =>
             /\ last'.op = "writer_agent"
             /\ last'.mode = IF WriterPapers(values) = <<>> THEN "skip" ELSE "single"
       /\ InContinuationTurn => ~Ran("planner_agent")
       /\ InContinuationTurn /\ (Ran("retriever_agent") \/ Ran("extractor_agent")) =>
             /\ writer_runs >= 1
             /\ values.reflection # None
             /\ values.reflection.should_retry
             /\ values.reflection.retry_target = "retriever_agent"]_vars

\* the extractor ran in a continuation turn
C7_Witness ==
    /\ values # NoSession
    /\ values.is_continuation
    /\ last.op = "extractor_agent"
    /\ writer_runs >= 1

\* C8: after the critic the run ends when qa_errors is empty and goes to
\* reflection otherwise, whatever retry_count is
C8_CriticRouting ==
    last.op = "critic_agent" =>
        next_nodes = IF values.qa_errors = <<>> THEN {} ELSE {"reflection_agent"}

\* the critic used the last retry and reflection is pending all the same
C8_Witness ==
    /\ last.op = "critic_agent"
    /\ values.retry_count = MAX_QA_RETRIES
    /\ next_nodes = {"reflection_agent"}

\* C9: after reflection the run ends when there is no reflection, when
\* should_retry is false or when retry_count has reached MAX_QA_RETRIES;
\* otherwise it goes to the node retry_target names when that is the
\* retriever or the writer, and to the writer by default
C9_ReflectionRouting ==
    last.op = "reflection_agent" =>
        next_nodes =
            IF \/ values.reflection = None
               \/ ~values.reflection.should_retry
               \/ values.retry_count >= MAX_QA_RETRIES
            THEN {}
            ELSE IF values.reflection.retry_target = "retriever_agent"
                 THEN {"retriever_agent"}
            ELSE {"writer_agent"}

\* a retry whose target names no node of the graph went to the writer
C9_Witness ==
    /\ last.op = "reflection_agent"
    /\ values.reflection # None
    /\ values.reflection.should_retry
    /\ values.reflection.retry_target \notin {"writer_agent", "retriever_agent"}
    /\ next_nodes = {"writer_agent"}

\* C10: from one checkpoint to the next, logs and messages only grow: the
\* earlier value is a prefix of the later one
C10_AppendOnly ==
    [][values # NoSession =>
          /\ IsPrefix(values.logs, values'.logs)
          /\ IsPrefix(values.messages, values'.messages)]_vars

\* the critic of a continuation turn has added to the logs of the first turn
C10_Witness ==
    /\ values # NoSession
    /\ last.op = "critic_agent"
    /\ Len(values.messages) = 2
    /\ Len(values.logs) >= 6

\* the kinds of error the critic's rule checks report
RuleErrorKinds == {"hallucinated", "no_citations", "missing"}

\* the session has completed with a draft that the last critic's rule checks passed
CompletedRulePassing ==
    /\ values # NoSession
    /\ next_nodes = {}
    /\ values.final_draft # None
    /\ \A i \in DOMAIN values.qa_errors : values.qa_errors[i].kind \notin RuleErrorKinds

\* C11: in a session that completes with a draft whose last critic evaluation
\* passed the rule checks, every index in 1..|approved_papers| is cited as
\* {cite:N} in at least one section of final_draft
C11_AllApprovedCited ==
    CompletedRulePassing =>
        \A n \in 1..Len(values.approved_papers) :
            \E i \in DOMAIN values.final_draft.sections :
                n \in CitedIn(values.final_draft.sections[i].content)

\* a session completed with a passing draft over two approved papers
C11_Witness ==
    /\ CompletedRulePassing
    /\ last.op = "critic_agent"
    /\ Len(values.approved_papers) = 2

\* a completed event carries a draft
CompletedWithDraft == last.op = "completed" /\ last.final_draft # None

\* the indices of the [N] rendered in a section's content
RenderedIndices(section) ==
    {section.content[j].n : j \in {k \in DOMAIN section.content :
                                      section.content[k].k = "ref"}}

C13_NormalizationIdempotent ==
    CompletedWithDraft =>
        /\ normalize_draft_citations(last.final_draft, NormalizationPapers(values))
              = last.final_draft
        /\ CompletedDraft(values) = last.final_draft

\* a completed draft in which two placeholders were rendered
C13_Witness ==
    /\ CompletedWithDraft
    /\ last.final_draft # values.final_draft
    /\ \E i \in DOMAIN last.final_draft.sections :
          Len(last.final_draft.sections[i].cited_paper_ids) = 2

\* the user approved some candidates and the extraction of each succeeded
ApprovedAndExtracted(state) ==
    /\ state.approved_papers # <<>>
    /\ Len(state.selected_papers) = Len(state.approved_papers)
    /\ \A i \in DOMAIN state.selected_papers :
          HasContribution(state.selected_papers[i])

\* C14: when the user approved a non-empty subset of the candidates and
\* their extraction succeeded, the writer starts from selected_papers and
\* writes a non-null final_draft; it does not take the skip branch
C14_WriterDraftsFromSelected ==
    (/\ values # NoSession
     /\ last.op = "writer_agent"
     /\ ApprovedAndExtracted(values))
    => /\ last.mode # "skip"
       /\ values.final_draft # None

\* C15: the critic and reflection leave final_draft as the writer wrote it,
\* and when reflection still asks for a retry as the run ends, the critic has
\* failed MAX_QA_RETRIES drafts of the turn: retry_count = MAX_QA_RETRIES,
\* the writer ran that many times, and its last draft is still in the state
C15_Step ==
    /\ (Ran("critic_agent") \/ Ran("reflection_agent"))
          => values'.final_draft = values.final_draft
    /\ (/\ Ran("reflection_agent")
        /\ values'.reflection # None
        /\ values'.reflection.should_retry
        /\ next_nodes' = {})
          => /\ values'.retry_count = MAX_QA_RETRIES
             /\ writer_runs' = MAX_QA_RETRIES
             /\ values'.final_draft # None

C15_QAExhaustedKeepsDraft == [][C15_Step]_vars

\* the third draft citing a paper that does not exist was failed, reflection
\* asked for the writer again, and the run ended with that draft
C15_Witness ==
    /\ last.op = "reflection_agent"
    /\ next_nodes = {}
    /\ values.reflection # None
    /\ values.reflection.should_retry
    /\ values.reflection.retry_target = "writer_agent"
    /\ values.retry_count = MAX_QA_RETRIES
    /\ writer_runs = MAX_QA_RETRIES
    /\ values.final_draft # None
    /\ \E i \in DOMAIN values.final_draft.sections :
          9 \in CitedIn(values.final_draft.sections[i].content)

\* the chunks among what the consumer was given: heartbeats left out
Chunks(items) == SelectSeq(items, LAMBDA c : c # HEARTBEAT_SENTINEL)

\* the chunks waiting on the queue: the terminator left out
Waiting(items) == SelectSeq(items, LAMBDA c : c # Terminator)

\* C16: whatever the interleaving of push, periodic flush and close, the
\* chunks delivered, then those waiting on the queue, then the buffer spell
\* the accepted tokens in push order, and once the consumer has terminated
\* the delivered chunks alone do: nothing is lost, duplicated or reordered
C16_TokensDeliveredInOrder ==
    /\ Concat(Chunks(yielded)) \o Concat(Waiting(event_queue._queue))
          \o Concat(event_queue._buffer) = Concat(pushed)
    /\ consumer = "done" => Concat(Chunks(yielded)) = Concat(pushed)
    /\ event_queue._stats_total_tokens = Len(pushed)

\* three tokens reached a terminated consumer in two chunks around a
\* heartbeat, the queue having been started
C16_Witness ==
    /\ consumer = "done"
    /\ Len(pushed) = 3
    /\ Len(Chunks(yielded)) = 2
    /\ Len(yielded) = 3
    /\ yielded[2] = HEARTBEAT_SENTINEL
    /\ event_queue._flush_task = "none"
    /\ sleep_ms > 0

\* the terminators among the items of a sequence
Terminators(items) == SelectSeq(items, LAMBDA c : c = Terminator)

\* C17 (steps): the close() that runs to its end puts the remaining buffer on
\* the queue as one chunk and then one terminator; once the terminator is on
\* the queue, or taken from it, no step puts anything; a repeated close() and
\* a push() after close() change neither the queue object nor what was
\* accepted and delivered
C17_Step ==
    /\ (queue_op' = "close" /\ queue_op # "close")
          => /\ event_queue'._queue =
                   event_queue._queue
                   \o (IF event_queue._buffer = <<>> THEN <<>>
                       ELSE <<Concat(event_queue._buffer)>>)
                   \o <<Terminator>>
             /\ event_queue'._buffer = <<>>
    /\ (Terminators(event_queue._queue) # <<>> \/ consumer = "done")
          => \/ event_queue'._queue = event_queue._queue
             \/ /\ event_queue._queue # <<>>
                /\ event_queue'._queue = Tail(event_queue._queue)
    /\ (queue_op' \in {"close_ignored", "push_ignored"} /\ queue_op' # queue_op)
          => UNCHANGED <<event_queue, pushed, yielded, consumer>>

\* C17 (states): at most one terminator is ever on the queue and nothing is
\* behind it; a consumer that has terminated has taken everything, the
\* chunks it was given spell all accepted tokens
C17_Closed ==
    /\ Len(Terminators(event_queue._queue)) <= 1
    /\ Terminators(event_queue._queue) # <<>>
          => event_queue._queue[Len(event_queue._queue)] = Terminator
    /\ consumer = "done"
          => /\ event_queue._queue = <<>>
             /\ event_queue._buffer = <<>>
             /\ Concat(Chunks(yielded)) = Concat(pushed)

\* C17: close() flushes what is buffered as one last chunk and then puts
\* exactly one terminator, the last item ever put; a consumer that keeps
\* consuming is given every chunk and terminates; a repeated close() adds
\* nothing and a push() after close() has no effect
C17_CloseFlushesAndTerminates ==
    /\ [][C17_Step]_vars
    /\ []C17_Closed
    /\ (event_queue._closed ~> consumer = "done")

\* close() was called on a started queue with two tokens buffered, then
\* called again and a token pushed; the consumer got the one chunk and ended
C17_Witness ==
    /\ consumer = "done"
    /\ queue_op = "push_ignored"
    /\ sleep_ms > 0
    /\ pushed = <<<<Ni>>, <<Hao>>>>
    /\ yielded = <<<<Ni, Hao>>>>
    /\ event_queue._stats_total_flushes = 1

\* this step is an accepted push of `token`
Accepted(token) == pushed' = Append(pushed, token)

\* C18: an accepted push of a token holding a semantic boundary character
\* puts the whole buffer, the token included, on the queue as one chunk and
\* leaves the buffer empty, while any other token only joins the buffer; so
\* when the tokens U+4F60, U+597D, U+3002 are fed with no flush in between,
\* the one chunk of the three characters is put
C18_Step ==
    \A token \in Tokens :
        Accepted(token) =>
            IF Range(token) \cap SEMANTIC_BOUNDARIES # {}
            THEN /\ event_queue'._queue =
                       Append(event_queue._queue,
                              Concat(event_queue._buffer) \o token)
                 /\ event_queue'._buffer = <<>>
                 /\ (/\ pushed = <<<<Ni>>, <<Hao>>>>
                     /\ event_queue._buffer = pushed
                     /\ token = <<IdeographicFullStop>>)
                       => event_queue'._queue
                             = <<<<Ni, Hao, IdeographicFullStop>>>>
            ELSE /\ event_queue'._buffer = Append(event_queue._buffer, token)
                 /\ event_queue'._queue = event_queue._queue

C19_InFlightBounded ==
    Cardinality(lm_calls) <= LLM_CONCURRENCY

\* the models of a call that pass the filter of its task: enabled, with the
\* capabilities the task requires, and of a cost tier within the task's
Passing(call) ==
    LET req == TASK_REQUIREMENTS[call.task_type]
        models == call.available_models
    IN {i \in DOMAIN models :
          /\ models[i].enabled
          /\ req.needs_structured_output => models[i].supports_structured_output
          /\ req.needs_long_context => models[i].supports_long_context
          /\ models[i].cost_tier <= _COST_TIER_MAP[req.max_cost_tier]}

\* C20: without an override select_model returns no model exactly when no
\* model passes the filter, and otherwise the id of a passing model whose
\* score no passing model exceeds and no earlier passing model equals
C20_SelectsBestEligible ==
    (routing # None /\ routing.override_model_id = Null) =>
        LET models == routing.available_models
            score(i) == _score_model(models[i], routing.task_type)
        IN /\ selected_model = Null <=> Passing(routing) = {}
           /\ Passing(routing) # {} =>
                 \E i \in Passing(routing) :
                    /\ selected_model = models[i].id
                    /\ \A j \in Passing(routing) :
                          /\ score(j) <= score(i)
                          /\ j < i => score(j) < score(i)

\* of two models of equal score the one first in the registry was returned,
\* a costlier model with better raw scores being filtered out
C20_Witness ==
    /\ routing # None
    /\ routing.override_model_id = Null
    /\ routing.task_type = "qa"
    /\ Len(routing.available_models) = 3
    /\ routing.available_models[1].id = "openai:gpt-4o"
    /\ routing.available_models[2].id = "qwen:qwen-turbo"
    /\ routing.available_models[3].id = "openai:gpt-4o-mini"
    /\ selected_model = "qwen:qwen-turbo"

\* `result` is what normal routing gives the call: nothing when no model
\* passes, else the first in the registry of the best-scored passing models
RoutedNormally(call, result) ==
    LET models == call.available_models
        score(i) == _score_model(models[i], call.task_type)
    IN IF Passing(call) = {} THEN result = Null
       ELSE \E i \in Passing(call) :
               /\ result = models[i].id
               /\ \A j \in Passing(call) :
                     /\ score(j) <= score(i)
                     /\ j < i => score(j) < score(i)

\* the override of the call names a model of its registry
OverrideRegistered(call) ==
    \E i \in DOMAIN call.available_models :
        call.available_models[i].id = call.override_model_id

\* C21: an override_model_id that is in the registry is returned whatever
\* the model's enabled flag, capabilities and cost tier are; one that is not
\* in the registry is ignored and normal routing applies
C21_OverrideWins ==
    (routing # None /\ routing.override_model_id # Null) =>
        IF OverrideRegistered(routing)
        THEN selected_model = routing.override_model_id
        ELSE RoutedNormally(routing, selected_model)

\* a disabled model was returned to a call that named it, while an enabled
\* model passing the task's filter was in the registry
C21_Witness ==
    /\ routing # None
    /\ routing.override_model_id = "openai:disabled"
    /\ selected_model = "openai:disabled"
    /\ Passing(routing) # {}
    /\ \A i \in Passing(routing) :
          routing.available_models[i].id # "openai:disabled"

\* C22: the fallback chain holds, without duplicate, the models that pass
\* the selection's filter (and the chosen model), in non-increasing score
\* order behind its head; its head is the chosen model, and with no chosen
\* model its head is what select_model returns
C22_FallbackChain ==
    chain_call # None =>
        LET models == chain_call.available_models
            primary == chain_call.primary_model_id
            passing == {models[i].id : i \in Passing(chain_call)}
            ScoreOf(id) ==
                LET i == CHOOSE k \in DOMAIN models : models[k].id = id
                IN _score_model(models[i], chain_call.task_type)
            rest == IF primary = Null THEN fallback_chain ELSE Tail(fallback_chain)
        IN /\ \A i, j \in DOMAIN fallback_chain :
                 i # j => fallback_chain[i] # fallback_chain[j]
           /\ Range(fallback_chain) =
                 passing \cup (IF primary = Null THEN {} ELSE {primary})
           /\ \A i, j \in DOMAIN rest :
                 i < j => ScoreOf(rest[i]) >= ScoreOf(rest[j])
           /\ primary # Null => fallback_chain[1] = primary
           /\ primary = Null =>
                 RoutedNormally(chain_call,
                                IF fallback_chain = <<>> THEN Null
                                ELSE fallback_chain[1])

\* ---------------------------------------------------------------------
\* a parsed reply made only of schema-definition keys
SchemaOnly(keys) == keys # {} /\ keys \subseteq SCHEMA_KEYS

\* the step that ends in this state handed a schema-only reply to a writer call
SchemaReplied(op) == \E i \in DOMAIN op.lm_replies : SchemaOnly(op.lm_replies[i])

\* C23 as stated: whenever a call of the writer (whole draft, outline or one
\* section) gets a reply made only of schema-definition keys, final_draft is
\* after the step exactly what it was before the writer's call.
C23_NoDraftMutation ==
    [][SchemaReplied(last') => values'.final_draft = values.final_draft]_vars

\* C23 amended: a schema-only reply makes structured_completion raise; raised
\* by the whole-draft call or the outline call it fails the node and leaves the
\* checkpoint (final_draft included) untouched; raised by a section call it is
\* collected, and the writer writes a draft whose section at that index is the
\* failure placeholder while the other sections keep their generated content.
C23_Step ==
    /\ (last'.op = "error" /\ SchemaReplied(last'))
          => /\ last'.mode \in {"single", "outline"}
             /\ UNCHANGED <<values, next_nodes>>
    /\ last'.op = "writer_agent"
          => \A i \in DOMAIN last'.lm_replies :
                /\ values'.final_draft # None
                /\ DOMAIN values'.final_draft.sections = DOMAIN last'.lm_replies
                /\ SchemaOnly(last'.lm_replies[i])
                      <=> values'.final_draft.sections[i].content = <<Failed>>
C23_SchemaReplyHandled == [][C23_Step]_vars

\* one section call got the schema-only reply, its sibling a real section
C23_Witness ==
    /\ last.op = "writer_agent"
    /\ last.mode = "outline"
    /\ SchemaOnly(last.lm_replies[1])
    /\ ~SchemaOnly(last.lm_replies[2])
    /\ values.final_draft.sections[1].content = <<Failed>>
    /\ values.final_draft.sections[2].content # <<Failed>>

\* ---------------------------------------------------------------------
\* C24: a completed event is emitted only when no node is pending (in
\* particular not while the graph is paused before the extractor), at most
\* once per stream, and no node update of that stream follows it.
C24_CompletedAtTerminal ==
    [][/\ last'.op = "completed" => next_nodes' = {} /\ run' = "idle"
       /\ last.op = "completed" => last'.op \notin NODES \cup {"completed"}]_vars

\* the completed event of a stream that ended paused before the extractor
C24_CompletedWhilePaused ==
    /\ last.op = "completed"
    /\ next_nodes = {"extractor_agent"}

\* ---------------------------------------------------------------------
NoneApproved(state) ==
    \A i \in DOMAIN state.candidate_papers : ~state.candidate_papers[i].is_approved

\* C25: with no approved candidate at resume the extractor writes empty
\* approved_papers and selected_papers; on these the writer makes no LM call
\* and writes final_draft = null; on that the critic writes empty qa_errors
\* with the "no draft" log, leaves retry_count alone, and the graph ends
\* without running reflection.
C25_Step ==
    /\ (last'.op = "extractor_agent" /\ NoneApproved(values))
          => /\ values'.approved_papers = <<>>
             /\ values'.selected_papers = <<>>
             /\ next_nodes' = {"writer_agent"}
    /\ (last'.op = "writer_agent" /\ values.approved_papers = <<>>)
          => /\ last'.mode = "skip"
             /\ last'.lm_replies = <<>>
             /\ values'.final_draft = None
             /\ next_nodes' = {"critic_agent"}
    /\ (last'.op = "critic_agent" /\ values.final_draft = None)
          => /\ values'.qa_errors = <<>>
             /\ values'.retry_count = values.retry_count
             /\ \E i \in DOMAIN values'.logs :
                    values'.logs[i].msg = "QA skipped: no draft to evaluate"
             /\ next_nodes' = {}
C25_NothingApprovedEndsEmpty == [][C25_Step]_vars

\* the run of a resume without approvals has ended after the critic: papers
\* were offered, none approved, no draft, and reflection never ran
C25_Witness ==
    /\ last.op = "critic_agent"
    /\ values.candidate_papers # <<>>
    /\ NoneApproved(values)
    /\ values.approved_papers = <<>>
    /\ values.selected_papers = <<>>
    /\ values.final_draft = None
    /\ values.qa_errors = <<>>
    /\ values.reflection = None
    /\ next_nodes = {}

\* ---------------------------------------------------------------------
PaperIds(papers) == [i \in DOMAIN papers |-> papers[i].paper_id]

\* C26: once a draft exists, the writer's numbered paper context, the list
\* whose length bounds the critic's valid indices (and which semantic
\* verification indexes), and the list completion-time normalization indexes
\* are one and the same ordered list, selected_papers.
C26_OneCitationIndex ==
    (last.op \in {"writer_agent", "critic_agent", "completed"}
       /\ values.final_draft # None)
    => /\ PaperIds(_build_paper_context(values)) = PaperIds(values.selected_papers)
       /\ PaperIds(values.approved_papers) = PaperIds(values.selected_papers)
       /\ PaperIds(NormalizationPapers(values)) = PaperIds(values.selected_papers)

\* ---------------------------------------------------------------------
\* C27: start and continue set retry_count to 0; every critic evaluation
\* either writes non-empty qa_errors and adds exactly 1 to retry_count, or
\* writes empty qa_errors and leaves retry_count as it was; no other step
\* changes retry_count. So retry_count is the number of failed critic
\* evaluations since the last start or continue.
C27_Step ==
    /\ Ran("critic_agent")
          => \/ /\ values'.qa_errors # <<>>
                /\ values'.retry_count = values.retry_count + 1
             \/ /\ values'.qa_errors = <<>>
                /\ values'.retry_count = values.retry_count
    /\ (~Ran("critic_agent") /\ values' # values)
          => \/ /\ values # NoSession
                /\ values'.retry_count = values.retry_count
             \/ /\ last'.op \in {"start_research", "continue_research"}
                /\ values'.retry_count = 0
C27_RetryCountCountsFailures == [][C27_Step]_vars

\* the critic failed the first draft and passed the second: the run ended
\* with retry_count = 1
C27_Witness ==
    /\ last.op = "critic_agent"
    /\ writer_runs = 2
    /\ values.final_draft # None
    /\ values.qa_errors = <<>>
    /\ values.retry_count = 1
    /\ next_nodes = {}

\* ---------------------------------------------------------------------
\* the writer step requested an outline and wrote it
OutlineRequested ==
    /\ last'.mode = "outline"
    /\ values'.draft_outline \in OutlineChoices
    /\ DOMAIN last'.lm_replies = DOMAIN values'.draft_outline.section_titles

\* the writer step made the one whole-draft call and no outline call
WholeDraftCall ==
    /\ last'.mode = "single"
    /\ last'.lm_replies = <<>>
    /\ values'.final_draft \in DraftChoices
    /\ values'.draft_outline = None

\* C28 as stated: the writer uses outline mode exactly when is_continuation is
\* false and it is not a retry; in every other case it makes one whole-draft
\* call, requests no outline and writes draft_outline = null.
C28_OutlineOrWholeDraft ==
    [][Ran("writer_agent")
         => IF ~values.is_continuation /\ ~(values.retry_count > 0 /\ values.qa_errors # <<>>)
            THEN OutlineRequested
            ELSE WholeDraftCall]_vars

\* C28 amended: the same, for a writer that has an approved paper with a
\* contribution; without one it makes no LM call in either case, writes
\* final_draft = null and leaves draft_outline as it was.
C28_Step ==
    Ran("writer_agent")
      => IF \A i \in DOMAIN values.approved_papers :
                values.approved_papers[i].core_contribution = Null
         THEN /\ last'.mode = "skip"
              /\ last'.lm_replies = <<>>
              /\ values'.final_draft = None
              /\ values'.draft_outline = values.draft_outline
         ELSE IF ~values.is_continuation
                 /\ ~(values.retry_count > 0 /\ values.qa_errors # <<>>)
         THEN OutlineRequested
         ELSE WholeDraftCall
C28_WriterMode == [][C28_Step]_vars

\* a retry of a start turn: the second writer run made the whole-draft call
\* and cleared the outline the first run had written
C28_Witness ==
    /\ last.op = "writer_agent"
    /\ last.mode = "single"
    /\ ~values.is_continuation
    /\ values.retry_count > 0
    /\ writer_runs = 2
    /\ values.draft_outline = None
    /\ values.final_draft \in DraftChoices

\* ---------------------------------------------------------------------
\* the draft built from the gathered results of an outline's section tasks
C29_Draft ==
    (writer_task = "done" /\ writer_draft # None)
    => \E outline \in OutlineChoices :
          LET titles == outline.section_titles
          IN /\ DOMAIN writer_draft.sections = DOMAIN titles
             /\ DOMAIN section_results = DOMAIN titles
             /\ \A i \in DOMAIN titles :
                   /\ writer_draft.sections[i].heading = titles[i]
                   /\ writer_draft.sections[i].content =
                         IF section_results[i].ok THEN section_results[i].content
                         ELSE <<Failed>>

\* a section task ends: it alone leaves the calls in flight, its result goes
\* to its own index, and the results its siblings delivered stay as they were
C29_Step ==
    (writer_task = "sections" /\ \E c \in lm_calls \ lm_calls' : c.task = "writer")
    => \E outline \in OutlineChoices :
          \E i \in DOMAIN outline.section_titles :
             /\ i \notin DOMAIN section_results
             /\ lm_calls' = lm_calls \ {Call("writer", outline.section_titles[i])}
             /\ DOMAIN section_results' = DOMAIN section_results \cup {i}
             /\ \A j \in DOMAIN section_results :
                   section_results'[j] = section_results[j]

\* C29: whatever the order in which the section tasks end and whichever of
\* them fail, the draft has one section per outline title, section i under
\* section_titles[i], a failed one holding the placeholder at its own index,
\* and a failure neither cancels nor changes a sibling.
C29_SectionsByIndex == []C29_Draft /\ [][C29_Step]_vars

\* the first section failed and the second, still in flight then, was
\* generated: the draft holds the placeholder first and the section second
C29_Witness ==
    /\ writer_task = "done"
    /\ writer_draft # None
    /\ ~section_results[1].ok
    /\ section_results[2].ok
    /\ writer_draft.sections[1] = Section("Introduction", <<Failed>>)
    /\ writer_draft.sections[2].heading = "Methods"
    /\ writer_draft.sections[2].content # <<Failed>>

\* ---------------------------------------------------------------------
\* the rule errors of a draft over n papers: the out-of-range indices of each
\* section, the sections without any citation, the indices in 1..n that no
\* section cites
ExpectedRuleErrors(draft, n) ==
    LET sections == draft.sections
    IN {Err("hallucinated", i, k) :
           <<i, k>> \in {<<i, k>> \in (DOMAIN sections) \X (0..9) :
                            k \in CitedIn(sections[i].content) /\ k \notin 1..n}}
       \cup {Err("no_citations", i, 0) :
                i \in {j \in DOMAIN sections : CitedIn(sections[j].content) = {}}}
       \cup {Err("missing", 0, k) :
                k \in {m \in 1..n : \A i \in DOMAIN sections :
                                        m \notin CitedIn(sections[i].content)}}

\* C30: a critic evaluation that finds at least one rule error writes exactly
\* the rule errors to qa_errors, each once, and does no semantic claim
\* verification: no entailment error is reported and claim_verification is
\* not written.
C30_Step ==
    (/\ Ran("critic_agent")
     /\ values.final_draft # None
     /\ ExpectedRuleErrors(values.final_draft, Len(values.approved_papers)) # {})
    => /\ Range(values'.qa_errors)
            = ExpectedRuleErrors(values.final_draft, Len(values.approved_papers))
       /\ Len(values'.qa_errors) = Cardinality(Range(values'.qa_errors))
       /\ values'.claim_verification = values.claim_verification
C30_RuleErrorsOnly == [][C30_Step]_vars

\* the critic failed a draft with a section that cites nothing (a failed
\* section) and reported that rule error alone, without a verification summary
C30_Witness ==
    /\ last.op = "critic_agent"
    /\ values.final_draft # None
    /\ \E i \in DOMAIN values.final_draft.sections :
          values.final_draft.sections[i].content = <<Failed>>
    /\ \E i \in DOMAIN values.qa_errors : values.qa_errors[i].kind = "no_citations"
    /\ values.claim_verification = None
    /\ values.retry_count = 1

\* ---------------------------------------------------------------------
\* the critic call had a draft passing the rule checks and approved papers,
\* and verify_draft_citations returned a summary
C31_Verified ==
    /\ critic_state # None
    /\ critic_state.state.final_draft # None
    /\ critic_state.state.approved_papers # <<>>
    /\ ExpectedRuleErrors(critic_state.state.final_draft,
                          Len(critic_state.state.approved_papers)) = {}
    /\ CLAIM_VERIFICATION_ENABLED
    /\ ~critic_state.lm.raised

\* C31: with the rule checks passed and a verification summary, the critic
\* fails QA exactly when entails / total < 0.80; it then writes
\* min(3, failed verifications) entailment errors and retry_count + 1;
\* otherwise it writes empty qa_errors; either way with the summary.
C31_EntailmentThreshold ==
    C31_Verified =>
        LET summary == critic_state.lm.summary
            total == summary.total_verifications
            below == total > 0 /\ summary.entails_count * 100 < 80 * total
            failed == total - summary.entails_count
        IN /\ critic_update.claim_verification = summary
           /\ IF below
              THEN /\ Len(critic_update.qa_errors) = (IF failed < 3 THEN failed ELSE 3)
                   /\ critic_update.qa_errors # <<>>
                   /\ \A i \in DOMAIN critic_update.qa_errors :
                         critic_update.qa_errors[i].kind = "low_entailment"
                   /\ critic_update.retry_count = critic_state.state.retry_count + 1
              ELSE /\ critic_update.qa_errors = <<>>
                   /\ critic_update.retry_count = critic_state.state.retry_count

\* four of five verifications entail: the ratio is the threshold, QA passes
C31_Witness ==
    /\ C31_Verified
    /\ critic_state.lm.summary = Summary(5, 4)
    /\ critic_update.qa_errors = <<>>
    /\ critic_update.claim_verification = Summary(5, 4)

\* ---------------------------------------------------------------------
\* the subsequence of a sequence of ids without the ids of a set
WithoutIds(ids, dropped) == SelectSeq(ids, LAMBDA id : id \notin dropped)

ApprovedIds(candidates) ==
    {candidates[i].paper_id : i \in {j \in DOMAIN candidates : candidates[j].is_approved}}

\* the ids the accepted approve calls matched
MatchedByAccepted ==
    UNION {approve_calls[c].paper_ids \cap Range(PaperIds(paused_candidates)) :
              c \in {d \in ApproveCallers : approve_calls[d].pc = "accepted"}}

C33_Step ==
    /\ PaperIds(paused_candidates') = PaperIds(paused_candidates)
    /\ ApprovedIds(paused_candidates) \subseteq ApprovedIds(paused_candidates')

C33_Union ==
    (\A c \in ApproveCallers : approve_calls[c].pc # "read")
    => ApprovedIds(paused_candidates) = MatchedByAccepted

\* C33: an approve call never takes an approval back and never adds, removes
\* or reorders candidates, and once the accepted approve calls on a paused
\* session have written, however their reads and writes interleaved, the
\* approved papers are the union of the ids those calls matched.
C33_ApprovalsAccumulate == [][C33_Step]_vars /\ []C33_Union

\* ---------------------------------------------------------------------
\* the terminal events among pushed events
TerminalEvents(events) ==
    SelectSeq(events, LAMBDA e : e \in {CompletedEvent, ErrorEvent})

C34_OneTerminalEvent ==
    /\ producer \in {"none", "streaming"} => TerminalEvents(pushed) = <<>>
    /\ producer \in {"finally", "returned"}
          => /\ Len(TerminalEvents(pushed)) = 1
             /\ pushed[Len(pushed)] \in {CompletedEvent, ErrorEvent}
    /\ event_queue._closed => producer = "returned"
    /\ consumer = "done"
          => /\ producer = "returned"
             /\ Concat(Chunks(yielded)) = Concat(pushed)

\* C34: however the graph run ends (completes, pauses, a node raises, or the
\* completion code raises) the producer pushes exactly one terminal event,
\* completed or error, as its last event and then closes the queue; the
\* consumer receives every event, the terminal one last, and its loop ends.
C34_StreamTerminates == []C34_OneTerminalEvent /\ <>(consumer = "done")

\* a node raised after two updates: the consumer got both updates and the
\* error event, and ended
C34_Witness ==
    /\ consumer = "done"
    /\ producer = "returned"
    /\ pushed = <<UpdateEvent, UpdateEvent, ErrorEvent>>
    /\ Concat(Chunks(yielded)) = Concat(pushed)

\* ---------------------------------------------------------------------
\* every attempt but the last of a request failed with a retried error
EarlierAttemptsRetried ==
    \A i \in 1..(Len(llm_request.attempts) - 1) :
        llm_request.attempts[i] \in RetriedErrors

LastAttempt == llm_request.attempts[Len(llm_request.attempts)]

\* C35: a request, streaming or not, makes at most 4 attempts, each but the
\* last one failed with a transient error; it returns at its first response,
\* raises a non-transient error at once, and raises a transient error only
\* when that was its 4th attempt.
C35_TransientErrorsRetried ==
    /\ Len(llm_request.attempts) <= STOP_AFTER_ATTEMPT
    /\ EarlierAttemptsRetried
    /\ llm_request.pc = "returned" => LastAttempt = "response"
    /\ llm_request.pc = "raised"
          => \/ LastAttempt \in OtherErrors
             \/ /\ LastAttempt \in RetriedErrors
                /\ Len(llm_request.attempts) = STOP_AFTER_ATTEMPT

\* ---------------------------------------------------------------------
\* a continue call is accepted that repeats the call before it
RepeatedContinue ==
    /\ continuation.requests # <<>>
    /\ Len(continuation'.requests) = Len(continuation.requests) + 1
    /\ continuation'.requests[Len(continuation'.requests)]
           = continuation.requests[Len(continuation.requests)]

\* C36 as stated: a continue call that repeats the one before it leaves all
\* five writer inputs as the first call left them.
C36_IdenticalWriterInputs ==
    [][RepeatedContinue
          => WriterInputs(continuation'.state) = WriterInputs(continuation.state)]_vars

C36_Step ==
    RepeatedContinue
       => LET before == WriterInputs(continuation.state)
              after == WriterInputs(continuation'.state)
              n == Len(after.conversation_context)
              line == <<"User", continuation'.requests[1].message>>
          IN  /\ after.user_query = before.user_query
              /\ after.existing_draft_summary = before.existing_draft_summary
              /\ after.qa_errors = before.qa_errors
              /\ after.retry_count = before.retry_count
              /\ after.conversation_context # before.conversation_context
              /\ n >= 2
              /\ after.conversation_context[n] = line
              /\ after.conversation_context[n - 1] = line

\* C36: a continue call that repeats the one before it leaves user_query, the
\* existing-draft summary, qa_errors (empty) and retry_count (0) as the first
\* call left them; the message is appended once more, so the conversation
\* context differs: its last two lines are both the user's message.
C36_RepeatedContinue == [][C36_Step]_vars

\* the same continue was accepted twice on a session whose history fills the
\* context window, and the message is in the state twice
C36_Witness ==
    /\ Len(continuation.requests) = 2
    /\ continuation.requests[1] = continuation.requests[2]
    /\ Len(continuation.state.messages) = 2 * MAX_CONVERSATION_TURNS + 2
    /\ Len(WriterInputs(continuation.state).conversation_context) = 2 * MAX_CONVERSATION_TURNS
    /\ continuation.state.retry_count = 0

\* ---------------------------------------------------------------------
\* what was emitted so far, concatenated
EmittedSoFar ==
    Concat([i \in DOMAIN field_feed.emissions |-> field_feed.emissions[i].text])

\* what a fresh extractor of the same mode returns for the whole text
WholeTextEmission ==
    feed(JsonFieldExtractor(FIELD_NAME, field_feed.extractor._buffer_until_complete),
         JsonText(field_feed.object)).text

\* the values of the named field, in order
RECURSIVE FieldValues(_)
FieldValues(pairs) ==
    IF pairs = <<>> THEN <<>>
    ELSE (IF Head(pairs).key = FIELD_NAME THEN <<Head(pairs).value>> ELSE <<>>)
            \o FieldValues(Tail(pairs))

\* C37: in non-buffered mode, however the JSON text is split into tokens, the
\* emissions so far concatenate to a prefix of what the extractor emits for
\* the whole text fed at once, and to all of it once the text is fed; that is
\* the values of the named field, unescaped.
C37_SplitInvariant ==
    (field_feed # None /\ ~field_feed.extractor._buffer_until_complete)
        => /\ IsPrefix(EmittedSoFar, WholeTextEmission)
           /\ field_feed.fed = Len(JsonText(field_feed.object))
                 => /\ EmittedSoFar = WholeTextEmission
                    /\ EmittedSoFar = Concat(FieldValues(field_feed.object))

\* a text was fed in full, in tokens that cut the key, split the escape
\* sequence of the first value and its opening quote from the colon
C37_Witness ==
    /\ field_feed # None
    /\ ~field_feed.extractor._buffer_until_complete
    /\ field_feed.fed = Len(JsonText(field_feed.object))
    /\ Len(field_feed.object) = 2
    /\ field_feed.object[1].value = <<"a", LineFeed>>
    /\ field_feed.object[2].value = <<QUOTE, "b">>
    /\ Len(field_feed.emissions) >= 3
    /\ field_feed.emissions[1].text = <<"a">>
    /\ field_feed.emissions[2].text = <<LineFeed>>

\* ---------------------------------------------------------------------
\* where the closing quote of the value of pair j stands in the text
RECURSIVE ClosingQuoteAt(_, _)
ClosingQuoteAt(object, j) ==
    IF j = 1 THEN 1 + Len(PairText(object[1]))
    ELSE ClosingQuoteAt(object, j - 1) + 2 + Len(PairText(object[j]))

\* the non-empty values of the named field whose closing quote stands after
\* position lo and not after position hi, one emission each
RECURSIVE ValuesClosedIn(_, _, _, _)
ValuesClosedIn(object, j, lo, hi) ==
    IF j > Len(object) THEN <<>>
    ELSE (IF /\ object[j].key = FIELD_NAME
             /\ object[j].value # <<>>
             /\ ClosingQuoteAt(object, j) > lo
             /\ ClosingQuoteAt(object, j) <= hi
          THEN <<[text |-> object[j].value]>> ELSE <<>>)
            \o ValuesClosedIn(object, j + 1, lo, hi)

BufferedFeed ==
    /\ field_feed # None
    /\ field_feed.extractor._buffer_until_complete
    /\ field_feed' # field_feed

\* C38: in buffer-until-complete mode a feed call adds to the emissions
\* exactly the (non-empty) values of the named field that its token closes,
\* each as one emission holding the unescaped value: nothing while a value is
\* open, nothing late, and no two values in one emission, for any token split.
C38_OneEmissionPerValue ==
    [][BufferedFeed
          => field_feed'.emissions
                = field_feed.emissions
                    \o ValuesClosedIn(field_feed.object, 1,
                                      field_feed.fed, field_feed'.fed)]_vars

\* ---------------------------------------------------------------------
\* where paper p stands in the list
IndexIn(papers, p) == CHOOSE i \in DOMAIN papers : papers[i] = p

SeqRange(s) == { s[i] : i \in DOMAIN s }

\* out is the prioritization of papers: a permutation, whose first papers are
\* one per sub-question in ascending priority while papers remain, each the
\* best-scoring of those not reserved before it with ties going to the one
\* earlier in papers, followed by the other papers in the order of papers
IsPrioritizationOf(out, papers, research_plan) ==
    LET sqs == SortByPriority(research_plan.sub_questions)
        k == Min(Len(sqs), Len(papers))
        reserved == { out[j] : j \in 1..k }
        NotReserved(p) == p \notin reserved
    IN  /\ Len(out) = Len(papers)
        /\ SeqRange(out) = SeqRange(papers)
        /\ \A j \in 1..k :
              \A p \in SeqRange(papers) \ { out[m] : m \in 1..(j - 1) } :
                 /\ Score(p, sqs[j].keywords) <= Score(out[j], sqs[j].keywords)
                 /\ Score(p, sqs[j].keywords) = Score(out[j], sqs[j].keywords)
                       => IndexIn(papers, out[j]) <= IndexIn(papers, p)
        /\ SubSeq(out, k + 1, Len(out)) = SelectSeq(papers, NotReserved)

CallsOfKind(kind) ==
    LET IsKind(c) == c.kind = kind
    IN  SelectSeq(claim_extraction.calls, IsKind)

\* the extraction is over, the draft has at least two sections with citations
\* and no LM call failed
ExtractionDoneWithoutFailure ==
    /\ claim_extraction # None
    /\ claim_extraction.batches = <<>>
    /\ Len(claim_extraction.citing) >= 2
    /\ Len(section_indices_with_citations(claim_extraction.citing)) >= 2
    /\ \A i \in DOMAIN claim_extraction.calls :
          claim_extraction.calls[i].reply # "raises"

\* C40: over a draft with at least two citing sections and no LM failure, the
\* batch calls are one per batch of up to CLAIM_BATCH_SIZE citing sections in
\* order, each sending every section of its batch under its own index with
\* its own content, and a per-section call is made only for a batch whose
\* batch call was made and gave no claims.
C40_OneCallPerBatch ==
    ExtractionDoneWithoutFailure
       => LET batches == ClaimBatches(
                             section_indices_with_citations(claim_extraction.citing))
              batch_calls == CallsOfKind("batch")
              section_calls == CallsOfKind("section")
          IN  /\ Len(batch_calls) = Len(batches)
              /\ \A b \in DOMAIN batch_calls :
                    /\ Len(batches[b]) <= CLAIM_BATCH_SIZE
                    /\ batch_calls[b].sent
                          = [k \in DOMAIN batches[b] |->
                                [section_index |-> batches[b][k],
                                 text |-> SectionContent(batches[b][k])]]
              /\ \A s \in DOMAIN section_calls :
                    \E b \in DOMAIN batch_calls :
                       /\ batch_calls[b].batch = section_calls[s].batch
                       /\ batch_calls[b].reply = "no_claims"

====
